---- MODULE Spec2Model ----
(***************************************************************************)
(* Model of the retrieval core and the code-graph build pipeline of ekad:  *)
(*   - HybridSearchEngine      (vectorstore/hybrid_search.py)              *)
(*   - RetrieverDispatcher     (vectorstore/retrievers/dispatcher.py)      *)
(*   - CodeSourceRegistry, CodeQLDatabaseBuilder, LocalCodeQLStorage       *)
(*   - GraphEmitter            (codeql/graph_emitter.py)                   *)
(* Each component has its own specification over the shared variables; a   *)
(* specification leaves the variables of the other components unchanged.   *)
(***************************************************************************)
EXTENDS Integers, Sequences, FiniteSets, Bags, TLC

(***************************************************************************)
(* Bounds of the model.                                                    *)
(***************************************************************************)
MaxTopK == 2

(***************************************************************************)
(* Generic helpers.                                                        *)
(***************************************************************************)
Range(s) == {s[i] : i \in 1..Len(s)}

Min(a, b) == IF a < b THEN a ELSE b

Take(s, n) == SubSeq(s, 1, Min(n, Len(s)))

IsInjective(s) == \A i, j \in 1..Len(s) : s[i] = s[j] => i = j

InjectiveSeqs(S, n) ==
    {s \in UNION {[1..m -> S] : m \in 0..n} : IsInjective(s)}

(***************************************************************************)
(* HybridSearchEngine                                                      *)
(***************************************************************************)
Areas == {"pharmacy", "claims"}

\* Chunk ids. Qdrant point ids and the "id" of an indexed chunk are the same
\* ids (ingestion upserts and indexes the same chunk dicts), unique per chunk.
DocIds == {"d1", "d2", "d3"}

NoIndex == <<"no_index">>

\* BM25 scores are floats computed by the rank_bm25 library from the query,
\* one per indexed chunk; only their order enters the ranking.  The model
\* draws one score per chunk from as many levels as an index has chunks at
\* most, so that every order of the chunks, ties included, is drawn.
Bm25Scores == 0..(Cardinality(DocIds) - 1)

VARIABLES
    bm25_indexes,     \* area -> the chunk list the index was built over, or NoIndex
    bm25_documents,   \* area -> the chunk list kept beside the index
    h_build,          \* the build_bm25_index call between its two assignments
    h_call,           \* the last hybrid_search call: its arguments and candidates
    h_fused,          \* what reciprocal_rank_fusion returned in that call
    h_result          \* what hybrid_search returned (or that it raised)

hvars == <<bm25_indexes, bm25_documents, h_build, h_call, h_fused, h_result>>

(***************************************************************************)
(* RetrieverDispatcher state                                               *)
(***************************************************************************)
VARIABLES
    sources_config,   \* settings.sources_config_map[area]: its source names, in order
    overrides,        \* settings.retriever_overrides_map[area]: source -> names
    d_registry,       \* RetrieverDispatcher._registry: name -> kind of retriever
    d_pc,             \* position of the retrieve call
    d_args,           \* arguments of the retrieve call
    d_todo,           \* source_configs entries the outer loop has not reached
    d_cur,            \* source of the running inner loop, "" between sources
    d_names,          \* retriever names the inner loop has not reached
    d_source_results, \* source_results of the running inner loop
    d_results,        \* results: the map under construction, in insertion order
    d_invoked         \* log of the retriever invocations of the call

dvars == <<sources_config, overrides, d_registry, d_pc, d_args, d_todo, d_cur,
           d_names, d_source_results, d_results, d_invoked>>


NoCall == [status |-> "none", area |-> "", top_k |-> 0,
           dense |-> <<>>, sparse |-> <<>>, indexed |-> FALSE,
           seen_index |-> <<>>, seen_documents |-> <<>>, rebuilt |-> FALSE,
           mixed_meanwhile |-> FALSE]

\* No build_bm25_index call is between its assignments.
NoBuilding == [area |-> "", documents |-> <<>>]

HybridIdle ==
    /\ bm25_indexes = [a \in Areas |-> NoIndex]
    /\ bm25_documents = [a \in Areas |-> <<>>]
    /\ h_build = NoBuilding
    /\ h_call = NoCall
    /\ h_fused = <<>>
    /\ h_result = <<>>

\* Exact rationals <<numerator, denominator>> stand for the float scores: within
\* the ranks of the model two fused scores are equal as floats exactly when they
\* are equal as rationals (float addition is commutative, and distinct sums
\* differ by far more than the rounding error).
FracAdd(a, b) == <<a[1] * b[2] + b[1] * a[2], a[2] * b[2]>>

FracGT(a, b) == a[1] * b[2] > b[1] * a[2]

FracEQ(a, b) == a[1] * b[2] = b[1] * a[2]

FracZero == <<0, 1>>

RRF_K == 60

\* Mutant: ranks counted from 0 (enumerate without start=1).
ContributionZeroBased(rank) == <<1, RRF_K + rank - 1>>

\* 1 / (k + rank)
Contribution(rank) == <<1, RRF_K + rank>>

\* One loop of reciprocal_rank_fusion over a candidate list: acc.keys is the
\* insertion order of the rrf_scores dict, acc.score its values.
RECURSIVE AddRanked(_, _, _)
AddRanked(acc, ids, rank) ==
    IF rank > Len(ids) THEN acc
    ELSE LET id == ids[rank]
             old == IF id \in Range(acc.keys) THEN acc.score[id] ELSE FracZero
             nxt == [keys  |-> IF id \in Range(acc.keys) THEN acc.keys
                               ELSE Append(acc.keys, id),
                     score |-> [acc.score EXCEPT ![id] = FracAdd(old, Contribution(rank))]]
         IN  AddRanked(nxt, ids, rank + 1)

\* list.sort(key=rrf_score, reverse=True) is stable: an element is placed after
\* every element already there whose score is greater or equal.
RECURSIVE InsertDesc(_, _)
InsertDesc(x, s) ==
    IF s = <<>> THEN <<x>>
    ELSE IF FracGT(x.rrf_score, s[1].rrf_score) THEN <<x>> \o s
    ELSE <<s[1]>> \o InsertDesc(x, Tail(s))

RECURSIVE SortDescFrom(_, _, _)
SortDescFrom(sorted, s, i) ==
    IF i > Len(s) THEN sorted
    ELSE SortDescFrom(InsertDesc(s[i], sorted), s, i + 1)

\* Mutant: the fused list is left in dict insertion order.
SortByScoreDescMissing(s) == s

\* Mutant: the sort without reverse=True.
RECURSIVE SortByScoreAscending(_)
SortByScoreAscending(s) ==
    IF s = <<>> THEN <<>>
    ELSE LET rest == SortByScoreAscending(Tail(s))
             RECURSIVE InsAsc(_)
             InsAsc(t) == IF t = <<>> THEN <<s[1]>>
                          ELSE IF FracGT(t[1].rrf_score, s[1].rrf_score) THEN <<s[1]>> \o t
                          ELSE <<t[1]>> \o InsAsc(Tail(t))
         IN  InsAsc(rest)

SortByScoreDesc(s) == SortDescFrom(<<>>, s, 1)

reciprocal_rank_fusion(dense_ids, bm25_ids) ==
    LET a0 == [keys |-> <<>>, score |-> [d \in DocIds |-> FracZero]]
        a1 == AddRanked(a0, dense_ids, 1)
        a2 == AddRanked(a1, bm25_ids, 1)
        fused == [i \in 1..Len(a2.keys) |->
                    [id |-> a2.keys[i], rrf_score |-> a2.score[a2.keys[i]]]]
    IN  SortByScoreDesc(fused)

\* results.sort(key=score, reverse=True) of bm25_search: stable, descending.
RECURSIVE InsertBm25(_, _)
InsertBm25(x, s) ==
    IF s = <<>> THEN <<x>>
    ELSE IF x.score > s[1].score THEN <<x>> \o s
    ELSE <<s[1]>> \o InsertBm25(x, Tail(s))

RECURSIVE SortBm25From(_, _, _)
SortBm25From(sorted, s, i) ==
    IF i > Len(s) THEN sorted
    ELSE SortBm25From(InsertBm25(s[i], sorted), s, i + 1)

\* bm25_search once the index exists: scores[i] is the index's score of its
\* i-th chunk, documents the list kept beside the index.
Bm25Ranked(documents, scores, top_k) ==
    LET results == [i \in 1..Len(documents) |->
                      [document |-> documents[i], score |-> scores[i], rank |-> i - 1]]
    IN  Take(SortBm25From(<<>>, results, 1), top_k)

Bm25Ids(results) == [i \in 1..Len(results) |-> results[i].document]

\* A variant of the assignment that keeps, behind the new chunks, the chunks
\* the area held before.
RebuiltMerging(by_area, area, docs) ==
    LET old == IF by_area[area] = NoIndex THEN <<>> ELSE by_area[area]
        kept == SelectSeq(old, LAMBDA d : d \notin Range(docs))
    IN  [by_area EXCEPT ![area] = docs \o kept]

\* self.bm25_indexes[area] = BM25Okapi(...) and self.bm25_documents[area] =
\* documents: a dict assignment, the entry of the area is replaced and the
\* entries of the other areas stay.
Rebuilt(by_area, area, docs) == [by_area EXCEPT ![area] = docs]

\* build_bm25_index(area, documents): both dicts are replaced for the area.
\* The method is synchronous and its two assignments follow each other with
\* no await between them, so it is one step of the event loop; it may run
\* (inside ingest) while a hybrid_search is suspended in dense_search, and
\* the suspended call then notes that its area was rebuilt meanwhile.
BuildBm25Index(area, docs) ==
    /\ h_call.status \in {"none", "dense"}
    /\ bm25_indexes' = Rebuilt(bm25_indexes, area, docs)
    /\ bm25_documents' = Rebuilt(bm25_documents, area, docs)
    /\ h_call' = IF h_call.status = "dense" /\ h_call.area = area
                    THEN [h_call EXCEPT !.rebuilt = TRUE] ELSE h_call
    /\ UNCHANGED <<h_build, h_fused, h_result>>

\* The same call at the grain of its statements.  Line 41,
\* self.bm25_indexes[area] = BM25Okapi(tokenized_docs): the index of the
\* area is the new one, its document list still the one of the build before.
BuildBm25IndexAssignIndex(area, docs) ==
    /\ h_build = NoBuilding
    /\ h_call.status \in {"none", "dense"}
    /\ bm25_indexes' = Rebuilt(bm25_indexes, area, docs)
    /\ h_build' = [area |-> area, documents |-> docs]
    /\ h_call' = IF h_call.status = "dense" /\ h_call.area = area
                    THEN [h_call EXCEPT
                            !.rebuilt = TRUE,
                            !.mixed_meanwhile = bm25_documents[area] \notin {<<>>, docs}]
                    ELSE h_call
    /\ UNCHANGED <<bm25_documents, h_fused, h_result>>

\* Line 42, self.bm25_documents[area] = documents, and the return.
BuildBm25IndexAssignDocuments ==
    /\ h_build # NoBuilding
    /\ bm25_documents' = Rebuilt(bm25_documents, h_build.area, h_build.documents)
    /\ h_build' = NoBuilding
    /\ UNCHANGED <<bm25_indexes, h_call, h_fused, h_result>>

\* The scheduling were the build a coroutine that suspends between its two
\* assignments, or a call handed to a worker thread: the event loop goes on
\* with its other coroutines while the build is between them.
BuildLeavesLoopFree == TRUE

\* build_bm25_index is a plain def that ingest calls directly, with no await
\* from its first statement to its return, and the process has the one
\* thread of the event loop: while the call is between its assignments no
\* other coroutine takes a step.
LoopFreeOfBuild == h_build = NoBuilding

\* hybrid_search(area, query, top_k) up to its first suspension point,
\* "await self.dense_search(...)": other tasks of the event loop run until
\* the dense results arrive.
HybridSearchAwaitDense(area, top_k) ==
    /\ h_call.status = "none"
    /\ h_call' = [NoCall EXCEPT !.status = "dense", !.area = area, !.top_k = top_k]
    /\ UNCHANGED <<bm25_indexes, bm25_documents, h_build, h_fused, h_result>>

\* hybrid_search when dense_search raises: the exception is re-raised.
HybridSearchDenseFails(area, top_k) ==
    /\ h_call.status = "dense"
    /\ h_call.area = area
    /\ h_call.top_k = top_k
    /\ h_call' = [h_call EXCEPT !.status = "raised",
                                !.indexed = bm25_indexes[area] # NoIndex]
    /\ h_fused' = <<>>
    /\ h_result' = <<>>
    /\ UNCHANGED <<bm25_indexes, bm25_documents, h_build>>

\* hybrid_search(area, query, top_k) from the arrival of the dense results:
\* dense is what the vector index returned for limit 2*top_k, scores what the
\* lexical index gives its chunks.  bm25_search is synchronous: it reads
\* self.bm25_indexes[area] and then self.bm25_documents[area] in one step of
\* the event loop; the call records the pair it read.
HybridSearch(area, top_k, dense, scores) ==
    LET indexed == bm25_indexes[area] # NoIndex
        sparse == IF ~indexed THEN <<>>
                  ELSE Bm25Ids(Bm25Ranked(bm25_documents[area], scores, top_k * 2))
        fused  == reciprocal_rank_fusion(dense, sparse)
    IN  /\ h_call.status = "dense"
        /\ h_call.area = area
        /\ h_call.top_k = top_k
        /\ h_call' = [h_call EXCEPT
                        !.status = "ok", !.dense = dense, !.sparse = sparse,
                        !.indexed = indexed,
                        !.seen_index = IF indexed THEN bm25_indexes[area] ELSE <<>>,
                        !.seen_documents = IF indexed THEN bm25_documents[area] ELSE <<>>]
        /\ h_fused' = fused
        /\ h_result' = Take(fused, top_k)
        /\ UNCHANGED <<bm25_indexes, bm25_documents, h_build>>

\* The caller takes the outcome of the call; the engine is ready for the next.
HybridReturn ==
    /\ h_call.status # "none"
    /\ h_call' = NoCall
    /\ h_fused' = <<>>
    /\ h_result' = <<>>
    /\ UNCHANGED <<bm25_indexes, bm25_documents, h_build>>

(***************************************************************************)
(* RetrieverDispatcher                                                     *)
(***************************************************************************)
\* Bound: how many sources an area's configuration lists.
MaxSources == 2

\* Source names that may be configured; "jira" has no default retriever.
SourceNames == {"confluence", "gitlab", "codeql", "jira"}

\* Retriever names: the built-in ones and one that only register_retriever adds.
RetrieverNames == {"docs", "code", "lineage", "graph", "extra"}

\* DEFAULT_SOURCE_RETRIEVERS.get(source_name): <<>> stands for None.
DEFAULT_SOURCE_RETRIEVERS(source) ==
    CASE source = "confluence"   -> <<"docs">>
      [] source = "firestore"    -> <<"docs">>
      [] source = "gitlab"       -> <<"code">>
      [] source = "openmetadata" -> <<"lineage">>
      [] source = "codeql"       -> <<"graph">>
      [] OTHER                   -> <<>>

\* The override maps the model draws from: none, or one naming two retrievers.
OverrideChoices ==
    { [s \in {} |-> <<>>],
      [s \in {"gitlab"} |-> <<"code", "extra">>],
      [s \in {"confluence"} |-> <<"extra", "docs">>] }

\* Filters a caller may pass: none, one without and one with a "source" key.
FilterChoices ==
    { [k \in {} |-> ""],
      [k \in {"document_type"} |-> "runbook"],
      [k \in {"source"} |-> "firestore"] }

\* The `sources` argument: <<>> stands for None (every configured source).
SourcesArgChoices == {<<>>, <<"gitlab">>, <<"jira", "confluence">>, <<"firestore">>,
                      <<"gitlab", "gitlab", "confluence">>}

UnknownArea == "unknown"

NoArgs == [area |-> "", sources |-> <<>>, filters |-> [k \in {} |-> ""], limit |-> 0]

\* _register_default_retrievers: docs, code and lineage always; graph only when
\* CodeQL is enabled and Neo4j is reachable.
DefaultRegistry(graph_available) ==
    [n \in RetrieverNames |->
        IF n \in {"docs", "code", "lineage"} THEN "builtin"
        ELSE IF n = "graph" /\ graph_available THEN "builtin"
        ELSE "none"]

DispatchCallIdle ==
    /\ d_pc = "idle"
    /\ d_args = NoArgs
    /\ d_todo = <<>>
    /\ d_cur = ""
    /\ d_names = <<>>
    /\ d_source_results = <<>>
    /\ d_results = <<>>
    /\ d_invoked = <<>>

\* The dispatcher as left alone by the specifications of the other components.
DispatchQuiet ==
    /\ sources_config = <<>>
    /\ overrides = [s \in {} |-> <<>>]
    /\ d_registry = DefaultRegistry(FALSE)
    /\ DispatchCallIdle

InitDispatch ==
    /\ sources_config \in InjectiveSeqs(SourceNames, MaxSources)
    /\ overrides \in OverrideChoices
    /\ \E g \in BOOLEAN : d_registry = DefaultRegistry(g)
    /\ DispatchCallIdle

\* register_retriever(retriever): a retriever implementing the protocol is put
\* under its name; nothing wraps its retrieve.
\* It is synchronous: it runs when no retrieve call is on the event loop or
\* while one is suspended in `await retriever.retrieve`.
RegisterRetriever(name) ==
    /\ d_pc \in {"idle", "awaiting"}
    /\ d_registry' = [d_registry EXCEPT ![name] = "plugin"]
    /\ UNCHANGED <<sources_config, overrides, d_pc, d_args, d_todo, d_cur, d_names,
                   d_source_results, d_results, d_invoked>>

\* The restriction dropped: every configured source whatever `sources` says.
SelectSourcesUnrestricted(configured, sources) == configured

\* The keys of a dict built by inserting keys in the order of rest after the
\* keys of seen: a repeated key keeps the place of its first insertion.
RECURSIVE KeysInOrder(_, _)
KeysInOrder(seen, rest) ==
    IF rest = <<>> THEN seen
    ELSE KeysInOrder(IF Head(rest) \in Range(seen) THEN seen
                     ELSE Append(seen, Head(rest)),
                     Tail(rest))

\* source_configs after the `if sources:` restriction: the keys of the dict
\* comprehension, in dict order.
SelectSources(configured, sources) ==
    IF sources = <<>> THEN configured
    ELSE KeysInOrder(<<>>, SelectSeq(sources, LAMBDA src : src \in Range(configured)))

\* The business-area check left out.
ValidAreaUnchecked(area) == TRUE

\* business_area in settings.business_areas_list
ValidArea(area) == area \in Areas

\* retrieve() up to the first loop iteration: the business-area check raises
\* ValueError, otherwise the source list is resolved.
RetrieveStart(area, sources, filters) ==
    /\ d_pc = "idle"
    /\ d_args' = [area |-> area, sources |-> sources, filters |-> filters, limit |-> 5]
    /\ IF ~ValidArea(area)
       THEN /\ d_pc' = "raised"
            /\ d_todo' = <<>>
       ELSE /\ d_pc' = "running"
            /\ d_todo' = SelectSources(sources_config, sources)
    /\ d_cur' = ""
    /\ d_names' = <<>>
    /\ d_source_results' = <<>>
    /\ d_results' = <<>>
    /\ d_invoked' = <<>>
    /\ UNCHANGED <<sources_config, overrides, d_registry>>

\* overrides.get(source_name, DEFAULT_SOURCE_RETRIEVERS.get(source_name))
RetrieverNamesFor(source) ==
    IF source \in DOMAIN overrides THEN overrides[source]
    ELSE DEFAULT_SOURCE_RETRIEVERS(source)

SyntheticNoRetriever(source) ==
    [retriever_name |-> "none", source |-> source, message |-> "no_retriever",
     error |-> "no_retriever_configured", documents |-> 0]

SyntheticNotFound(source, name) ==
    [retriever_name |-> name, source |-> source, message |-> "retriever_not_found",
     error |-> "not_registered", documents |-> 0]

\* The fields every result shares: the documents found and the error text
\* (str(exc), the same text for every failure here).
Documents(outcome) == IF outcome = "ok" THEN 1 ELSE 0
Failed(outcome) == outcome \notin {"ok", "empty"}
ErrorOf(outcome) ==
    IF outcome = "unavailable" THEN "Neo4j not available"
    ELSE IF Failed(outcome) THEN "retrieval_failed" ELSE "null"

\* DocumentRetriever.retrieve: source is the "source" entry of the filters it
\* was given; message success / no_results, or error when search raised.
DocsResult(filters, outcome) ==
    [retriever_name |-> "docs", source |-> filters["source"],
     message |-> IF outcome = "ok" THEN "success"
                 ELSE IF outcome = "empty" THEN "no_results" ELSE "error",
     error |-> ErrorOf(outcome), documents |-> Documents(outcome)]

\* CodeRetriever.retrieve: source "code", the count message also for no
\* documents, "Code retrieval failed" when search raised.
CodeResult(outcome) ==
    [retriever_name |-> "code", source |-> "code",
     message |-> IF Failed(outcome) THEN "Code retrieval failed"
                 ELSE IF Documents(outcome) = 1 THEN "Retrieved 1 code documents"
                 ELSE "Retrieved 0 code documents",
     error |-> ErrorOf(outcome), documents |-> Documents(outcome)]

\* LineageRetriever.retrieve: source "openmetadata".
LineageResult(outcome) ==
    [retriever_name |-> "lineage", source |-> "openmetadata",
     message |-> IF Failed(outcome) THEN "Lineage retrieval failed"
                 ELSE IF Documents(outcome) = 1 THEN "Retrieved 1 lineage documents"
                 ELSE "Retrieved 0 lineage documents",
     error |-> ErrorOf(outcome), documents |-> Documents(outcome)]

\* GraphRetriever.retrieve: source "code_graph"; without Neo4j the result
\* says so and no query is made.
GraphResult(outcome) ==
    [retriever_name |-> "graph", source |-> "code_graph",
     message |-> IF outcome = "unavailable"
                 THEN "Graph retriever not available (Neo4j not configured)"
                 ELSE IF Failed(outcome) THEN "Graph retrieval failed"
                 ELSE IF Documents(outcome) = 1 THEN "Retrieved 1 graph relationships"
                 ELSE "Retrieved 0 graph relationships",
     error |-> ErrorOf(outcome), documents |-> Documents(outcome)]

\* result = await retriever.retrieve(...): what the retriever object that was
\* looked up returns. A retriever put in by register_retriever answers under
\* the name it was registered with and reports the dispatcher's source.
RetrieverResult(source, name, kind, filters, outcome) ==
    IF kind = "plugin"
    THEN [retriever_name |-> name, source |-> source,
          message |-> IF outcome = "ok" THEN "success"
                      ELSE IF outcome = "empty" THEN "no_results" ELSE "error",
          error |-> ErrorOf(outcome), documents |-> Documents(outcome)]
    ELSE CASE name = "docs" -> DocsResult(filters, outcome)
           [] name = "code" -> CodeResult(outcome)
           [] name = "lineage" -> LineageResult(outcome)
           [] name = "graph" -> GraphResult(outcome)

\* How a retrieve call of a registered retriever can end. The built-in
\* retrievers catch every Exception and return it as a result (the graph
\* retriever also returns one when Neo4j is not available); a retriever put
\* in by register_retriever is only bound by the protocol and may raise.
Outcomes(name, kind) ==
    IF kind = "builtin"
    THEN {"ok", "empty", "error"} \cup (IF name = "graph" THEN {"unavailable"} ELSE {})
    ELSE {"ok", "empty", "error", "raise"}

\* combined_filters = dict(filters or {}); setdefault("source", source_name)
CombinedFilters(filters, source) ==
    [k \in DOMAIN filters \cup {"source"} |->
        IF k \in DOMAIN filters THEN filters[k] ELSE source]

\* results[source_name] = value
SetResult(results, source, value) ==
    IF \E i \in 1..Len(results) : results[i].source = source
    THEN [i \in 1..Len(results) |->
            IF results[i].source = source
            THEN [source |-> source, results |-> value] ELSE results[i]]
    ELSE Append(results, [source |-> source, results |-> value])

\* Outer loop, one iteration start: resolve the retriever names of the next
\* source; an empty list gets the synthetic result and the loop continues.
DispatchNextSource ==
    /\ d_pc = "running"
    /\ d_cur = ""
    /\ d_todo # <<>>
    /\ LET source == Head(d_todo)
           names == RetrieverNamesFor(source)
       IN  /\ d_todo' = Tail(d_todo)
           /\ IF names = <<>>
              THEN /\ d_results' = SetResult(d_results, source,
                                             <<SyntheticNoRetriever(source)>>)
                   /\ UNCHANGED <<d_cur, d_names>>
              ELSE /\ d_cur' = source
                   /\ d_names' = names
                   /\ UNCHANGED d_results
    /\ d_source_results' = <<>>
    /\ UNCHANGED <<sources_config, overrides, d_registry, d_pc, d_args, d_invoked>>

\* Mutant: an unregistered name ends the inner loop (break for continue).
SlotDoneBreak(r) ==
    LET done == Append(d_source_results, r)
        last == Len(d_names) = 1 \/ r.message = "retriever_not_found"
    IN  /\ d_names' = IF last THEN <<>> ELSE Tail(d_names)
        /\ IF last
           THEN /\ d_results' = SetResult(d_results, d_cur, done)
                /\ d_source_results' = <<>>
                /\ d_cur' = ""
           ELSE /\ d_source_results' = done
                /\ UNCHANGED <<d_results, d_cur>>

\* The slot of the inner loop is done with result r: after the last name the
\* source's list is put into the map.
SlotDone(r) ==
    LET done == Append(d_source_results, r)
    IN  /\ d_names' = Tail(d_names)
        /\ IF Len(d_names) = 1
           THEN /\ d_results' = SetResult(d_results, d_cur, done)
                /\ d_source_results' = <<>>
                /\ d_cur' = ""
           ELSE /\ d_source_results' = done
                /\ UNCHANGED <<d_results, d_cur>>

\* Inner loop, a name that is not in the registry: synthetic failed result.
DispatchNotRegistered ==
    /\ d_pc = "running"
    /\ d_cur # ""
    /\ d_registry[Head(d_names)] = "none"
    /\ SlotDone(SyntheticNotFound(d_cur, Head(d_names)))
    /\ UNCHANGED <<sources_config, overrides, d_registry, d_pc, d_args, d_todo, d_invoked>>

\* Inner loop, a registered retriever: the filters are combined and
\* retrieve() suspends in `await retriever.retrieve(...)` of the retriever
\* object it looked up; the invocation is logged with its outcome pending.
DispatchAwait ==
    /\ d_pc = "running"
    /\ d_cur # ""
    /\ d_registry[Head(d_names)] # "none"
    /\ d_invoked' = Append(d_invoked,
            [source |-> d_cur, retriever |-> Head(d_names),
             kind |-> d_registry[Head(d_names)], outcome |-> "pending",
             filters |-> CombinedFilters(d_args.filters, d_cur)])
    /\ d_pc' = "awaiting"
    /\ UNCHANGED <<sources_config, overrides, d_registry, d_args, d_todo, d_cur,
                   d_names, d_source_results, d_results>>

\* The invocation retrieve() is suspended in.
Awaited == d_invoked[Len(d_invoked)]

\* The awaited retrieve returns a result: source_results.append(result).
DispatchInvoke(outcome) ==
    /\ d_pc = "awaiting"
    /\ outcome \in Outcomes(Awaited.retriever, Awaited.kind) \ {"raise"}
    /\ d_invoked' = [d_invoked EXCEPT ![Len(d_invoked)].outcome = outcome]
    /\ SlotDone(RetrieverResult(d_cur, Awaited.retriever, Awaited.kind,
                                Awaited.filters, outcome))
    /\ d_pc' = "running"
    /\ UNCHANGED <<sources_config, overrides, d_registry, d_args, d_todo>>

\* The awaited retrieve raises: nothing in retrieve() catches it, the
\* exception leaves the dispatcher and the map built so far is lost.
DispatchInvokeRaises ==
    /\ d_pc = "awaiting"
    /\ "raise" \in Outcomes(Awaited.retriever, Awaited.kind)
    /\ d_invoked' = [d_invoked EXCEPT ![Len(d_invoked)].outcome = "raise"]
    /\ d_pc' = "raised"
    /\ UNCHANGED <<sources_config, overrides, d_registry, d_args, d_todo, d_cur,
                   d_names, d_source_results, d_results>>

\* return results
DispatchReturn ==
    /\ d_pc = "running"
    /\ d_cur = ""
    /\ d_todo = <<>>
    /\ d_pc' = "returned"
    /\ UNCHANGED <<sources_config, overrides, d_registry, d_args, d_todo, d_cur,
                   d_names, d_source_results, d_results, d_invoked>>

\* The caller has the map (or the exception); the dispatcher takes the next call.
DispatchFinish ==
    /\ d_pc \in {"returned", "raised"}
    /\ d_pc' = "idle"
    /\ d_args' = NoArgs
    /\ d_todo' = <<>>
    /\ d_cur' = ""
    /\ d_names' = <<>>
    /\ d_source_results' = <<>>
    /\ d_results' = <<>>
    /\ d_invoked' = <<>>
    /\ UNCHANGED <<sources_config, overrides, d_registry>>

(***************************************************************************)
(* CodeSourceRegistry, LocalCodeQLStorage, CodeQLDatabaseBuilder           *)
(***************************************************************************)
\* Bound: how many times the registry stamps last_analyzed_time in a run.
MaxTime == 2

SourceTypes == {"gitlab", "filesystem"}

Paths == {"org/repo", "org_repo", "org/other"}

\* path.replace("/", "_").replace("\\", "_")
SafePath(path) ==
    CASE path = "org/repo"  -> "org_repo"
      [] path = "org_repo"  -> "org_repo"
      [] path = "org/other" -> "org_other"

\* f"{business_area}_{source_type}_{safe_path}"
SourceId(area, type, path) == <<area, type, SafePath(path)>>

\* An id given by the caller (register(..., source_id=...)).
CustomId == <<"custom">>

SourceIds == {SourceId(a, t, p) : a \in Areas, t \in SourceTypes, p \in Paths}
                \cup {CustomId}

Languages == {"python", "java"}

Revs == {"r1", "r2"}

\* get_current_commit returns None: the path is no Git checkout.
NoCommit == "None"

NotRegistered == [registered |-> FALSE]

\* base_path / business_area / safe_repo / language
DatabaseDir(area, repo_path, language) == <<area, SafePath(repo_path), language>>

DatabaseDirs == {DatabaseDir(a, p, l) : a \in Areas, p \in Paths, l \in Languages}

\* What a database directory holds: nothing (no directory), a database built
\* from a revision, or the remains of a copy that failed.
NoDatabase == [kind |-> "none", rev |-> NoCommit]

VARIABLES
    registry,        \* CodeSourceRegistry._sources
    registry_file,   \* the entries in data/code_source_registry.json
    now,             \* the clock read by datetime.now()
    head,            \* per path: what git rev-parse HEAD gives there
    storage,         \* per database directory: what it holds
    cli_ready,       \* get_codeql_cli() has found a working CLI
    b_pc,            \* position of the build_database call
    b_call,          \* its arguments, locals and result
    reg_trail,       \* history: the registry calls made last, oldest first
    r_call           \* history: the registry call made last and how it ended

bvars == <<registry, registry_file, now, head, storage, cli_ready, b_pc, b_call,
           reg_trail, r_call>>

\* The file before the first _save.
NoFile == [state |-> "absent", entries |-> [s \in SourceIds |-> NotRegistered]]

\* The file after a write that broke off: open(path, "w") has truncated it and
\* json.dump stopped part-way, what is there is no JSON document.
CorruptFile == [state |-> "corrupt", entries |-> [s \in SourceIds |-> NotRegistered]]

\* For a register call the record also keeps the fields it was given, whether
\* the id was given, and what the register call right before it returned when
\* that one named the same (area, type, path).
NoRegistryCall == [op |-> "none", source_id |-> <<>>, raised |-> FALSE,
                   returned |-> <<>>, given |-> FALSE, fields |-> <<>>,
                   same_as_last |-> FALSE, last_returned |-> <<>>]

\* Beside the locals of build_database the record keeps what the call found
\* when it began: the entry's time, the stored database, the registry calls
\* made before it.
NoBuild == [source_id |-> <<>>, repo_path |-> "", language |-> "",
            current_commit |-> NoCommit, last_commit |-> NoCommit, last_time |-> 0,
            existing_db |-> "None", trail |-> <<>>,
            cli_invoked |-> FALSE, cli_ok |-> FALSE, built_rev |-> NoCommit,
            stored |-> FALSE, result |-> "None"]

BuildQuiet ==
    /\ registry = [s \in SourceIds |-> NotRegistered]
    /\ registry_file = NoFile
    /\ now = 0
    /\ head = [p \in Paths |-> NoCommit]
    /\ storage = [d \in DatabaseDirs |-> NoDatabase]
    /\ cli_ready = FALSE
    /\ b_pc = "idle"
    /\ b_call = NoBuild
    /\ reg_trail = <<>>
    /\ r_call = NoRegistryCall

\* The registry file absent, nothing stored; the checkout is at some revision
\* or is no Git repository.
InitBuild ==
    /\ registry = [s \in SourceIds |-> NotRegistered]
    /\ registry_file = NoFile
    /\ now = 0
    /\ head \in [Paths -> Revs \cup {NoCommit}]
    /\ \A p \in Paths \ {"org/repo"} : head[p] = NoCommit
    /\ storage = [d \in DatabaseDirs |-> NoDatabase]
    /\ cli_ready = FALSE
    /\ b_pc = "idle"
    /\ b_call = NoBuild
    /\ reg_trail = <<>>
    /\ r_call = NoRegistryCall

\* datetime.isoformat() of a time that is set; None stays null.
IsoFormat(time) == IF time = 0 THEN <<"null">> ELSE <<"iso", time>>

\* datetime.fromisoformat of a value that is there and truthy, else None.
FromIsoFormat(text) == IF text = <<"null">> THEN 0 ELSE text[2]

\* CodeSource.to_dict
ToDict(source) ==
    IF source.registered
    THEN [source EXCEPT !.last_analyzed_time = IsoFormat(@)]
    ELSE source

\* CodeSource.from_dict
FromDict(data) ==
    IF data.registered
    THEN [data EXCEPT !.last_analyzed_time = FromIsoFormat(@)]
    ELSE data

\* The file holding the JSON document of a registry.
Written(new_registry) ==
    [state |-> "written", entries |-> [s \in SourceIds |-> ToDict(new_registry[s])]]

\* _load: the entries of a readable file; a missing file or one json.load
\* rejects leaves the registry empty.
Load(file) ==
    IF file.state = "written"
    THEN [s \in SourceIds |-> FromDict(file.entries[s])]
    ELSE [s \in SourceIds |-> NotRegistered]

\* _save: the whole map is written; when that fails the exception goes to the
\* caller and the file is as it was (nothing was opened) or cut short.
Save(new_registry, save_ok) ==
    registry_file' \in IF save_ok THEN {Written(new_registry)}
                       ELSE {registry_file, CorruptFile}

\* The register call before this one generated its id, returned, and named
\* this (area, type, path).
SameAsLast(area, type, path) ==
    /\ r_call.op = "register"
    /\ ~r_call.raised
    /\ ~r_call.given
    /\ registry[r_call.returned].business_area = area
    /\ registry[r_call.returned].source_type = type
    /\ registry[r_call.returned].path = path

\* CodeSource(...) with the fields of the call but the default languages.
NewSourceDefaultLanguages(area, type, path, languages, enabled) ==
    [registered |-> TRUE, source_id |-> SourceId(area, type, path),
     business_area |-> area, source_type |-> type, path |-> path,
     languages |-> <<"python", "java">>, enabled |-> enabled,
     last_analyzed_commit |-> NoCommit, last_analyzed_time |-> 0]

\* CodeSource(...) as register builds it: commit and time start as None.
NewSource(area, type, path, languages, enabled) ==
    [registered |-> TRUE, source_id |-> SourceId(area, type, path),
     business_area |-> area, source_type |-> type, path |-> path,
     languages |-> languages, enabled |-> enabled,
     last_analyzed_commit |-> NoCommit, last_analyzed_time |-> 0]

\* The body of register once the id is known: a new CodeSource replaces what
\* is under the id, then _save; the id is returned unless _save raised.
StoreEntry(key, given, area, type, path, languages, enabled, save_ok) ==
    /\ b_pc = "idle"
    /\ registry' = [registry EXCEPT ![key] =
            [NewSource(area, type, path, languages, enabled) EXCEPT !.source_id = key]]
    /\ Save(registry', save_ok)
    /\ reg_trail' = <<"register">>
    /\ r_call' = [op |-> "register", source_id |-> key, raised |-> ~save_ok,
                  returned |-> IF save_ok THEN key ELSE <<>>,
                  given |-> given, fields |-> <<languages, enabled>>,
                  same_as_last |-> SameAsLast(area, type, path),
                  last_returned |-> IF SameAsLast(area, type, path)
                                    THEN r_call.returned ELSE <<>>]
    /\ UNCHANGED <<now, head, storage, cli_ready, b_pc, b_call>>

\* register(..., source_id=key)
RegisterAs(key, area, type, path, languages, enabled, save_ok) ==
    StoreEntry(key, TRUE, area, type, path, languages, enabled, save_ok)

\* register(business_area, source_type, path, languages, enabled=...)
Register(area, type, path, languages, enabled, save_ok) ==
    StoreEntry(SourceId(area, type, path), FALSE, area, type, path, languages,
               enabled, save_ok)

\* An update that stamps the time and leaves the commit.
WithCommitTimeOnly(source, commit_hash, time) ==
    [source EXCEPT !.last_analyzed_time = time]

\* The entry after update_commit_hash set commit and time.
WithCommit(source, commit_hash, time) ==
    [source EXCEPT !.last_analyzed_commit = commit_hash,
                   !.last_analyzed_time = time]

\* update_commit_hash(source_id, commit_hash) for a registered id
UpdateCommitHash(source_id, commit_hash, save_ok) ==
    /\ b_pc = "idle"
    /\ registry[source_id].registered
    /\ now < MaxTime
    /\ now' = now + 1
    /\ registry' = [registry EXCEPT ![source_id] =
                        WithCommit(registry[source_id], commit_hash, now')]
    /\ Save(registry', save_ok)
    /\ reg_trail' = IF reg_trail = <<"register">>
                    THEN <<"register", "update_commit_hash", commit_hash>>
                    ELSE <<"update_commit_hash", commit_hash>>
    /\ r_call' = [op |-> "update_commit_hash", source_id |-> source_id,
                  raised |-> ~save_ok, returned |-> <<>>,
                  given |-> FALSE, fields |-> <<>>,
                  same_as_last |-> FALSE, last_returned |-> <<>>]
    /\ UNCHANGED <<head, storage, cli_ready, b_pc, b_call>>

\* The deletion emptying the whole dictionary.
RemovedWithAll(sources, source_id) == [k \in DOMAIN sources |-> NotRegistered]

\* del self._sources[source_id]
Removed(sources, source_id) == [sources EXCEPT ![source_id] = NotRegistered]

\* delete(source_id) for a registered id
Delete(source_id, save_ok) ==
    /\ b_pc = "idle"
    /\ registry[source_id].registered
    /\ registry' = Removed(registry, source_id)
    /\ Save(registry', save_ok)
    /\ reg_trail' = <<"delete">>
    /\ r_call' = [op |-> "delete", source_id |-> source_id,
                  raised |-> ~save_ok, returned |-> <<>>,
                  given |-> FALSE, fields |-> <<>>,
                  same_as_last |-> FALSE, last_returned |-> <<>>]
    /\ UNCHANGED <<now, head, storage, cli_ready, b_pc, b_call>>

\* update_commit_hash or delete for an id the registry does not hold:
\* ValueError, nothing is changed.
UnknownSource(op, source_id) ==
    /\ b_pc = "idle"
    /\ ~registry[source_id].registered
    /\ reg_trail' = <<op>>
    /\ r_call' = [NoRegistryCall EXCEPT !.op = op, !.source_id = source_id,
                                        !.raised = TRUE]
    /\ UNCHANGED <<registry, registry_file, now, head, storage, cli_ready, b_pc, b_call>>

\* The process starts again: CodeSourceRegistry() loads the file.
Restart ==
    /\ b_pc = "idle"
    /\ registry' = Load(registry_file)
    /\ cli_ready' = FALSE
    /\ reg_trail' = <<>>
    /\ r_call' = [NoRegistryCall EXCEPT !.op = "load"]
    /\ UNCHANGED <<registry_file, now, head, storage, b_pc, b_call>>

\* The checked-out repository moves to another revision (outside the program).
Checkout(path, rev) ==
    /\ head[path] # rev
    /\ head' = [head EXCEPT ![path] = rev]
    /\ UNCHANGED <<registry, registry_file, now, storage, cli_ready, b_pc, b_call,
                   reg_trail, r_call>>

\* LocalCodeQLStorage.get_database_path: None when the directory is missing,
\* else the database in it (or the directory itself).
GetDatabasePath(area, repo_path, language) ==
    IF storage[DatabaseDir(area, repo_path, language)].kind = "none" THEN "None"
    ELSE "stored_path"

\* The comparison without its "is not None" conjunct.
CommitUnchangedIgnoringNone(current_commit, last_commit) ==
    current_commit = last_commit

\* current_commit == last_commit and current_commit is not None
CommitUnchanged(current_commit, last_commit) ==
    current_commit = last_commit /\ current_commit # NoCommit

\* build_database up to the decision: no CLI or unknown source return None, a
\* cache hit returns the stored path, otherwise the CLI build is started.
BuildStart(source_id, language, cli_found) ==
    /\ b_pc = "idle"
    /\ now < MaxTime
    /\ cli_ready' = (cli_ready \/ cli_found)
    /\ LET source == registry[source_id]
           current == head[source.path]
           last == source.last_analyzed_commit
           call == [NoBuild EXCEPT !.source_id = source_id, !.language = language]
       IN  IF ~cli_ready' \/ ~source.registered
           THEN /\ b_pc' = "done"
                /\ b_call' = call
           ELSE LET existing == GetDatabasePath(source.business_area, source.path, language)
                    c2 == [call EXCEPT !.repo_path = source.path,
                                       !.current_commit = current,
                                       !.last_commit = last,
                                       !.last_time = source.last_analyzed_time,
                                       !.existing_db = existing,
                                       !.trail = reg_trail]
                IN  IF CommitUnchanged(current, last) /\ existing # "None"
                    THEN /\ b_pc' = "done"
                         /\ b_call' = [c2 EXCEPT !.result = existing]
                    ELSE /\ b_pc' = "building"
                         /\ b_call' = [c2 EXCEPT !.cli_invoked = TRUE]
    /\ reg_trail' = <<"build_database">>
    /\ UNCHANGED <<registry, registry_file, now, head, storage, r_call>>

\* cli.database_create returns: the database holds the checkout as it is now.
CliBuildSucceeds ==
    /\ b_pc = "building"
    /\ b_pc' = "storing"
    /\ b_call' = [b_call EXCEPT !.cli_ok = TRUE, !.built_rev = head[b_call.repo_path]]
    /\ UNCHANGED <<registry, registry_file, now, head, storage, cli_ready, reg_trail, r_call>>

\* cli.database_create raises (CalledProcessError, TimeoutExpired): the except
\* branch of build_database returns None.
CliBuildFails ==
    /\ b_pc = "building"
    /\ b_pc' = "done"
    /\ UNCHANGED <<registry, registry_file, now, head, storage, cli_ready, b_call,
                   reg_trail, r_call>>

BuildDir == DatabaseDir(registry[b_call.source_id].business_area,
                        b_call.repo_path, b_call.language)

\* storage.store_database copies the database into its directory.
StoreSucceeds ==
    /\ b_pc = "storing"
    /\ storage' = [storage EXCEPT ![BuildDir] = [kind |-> "db", rev |-> b_call.built_rev]]
    /\ b_pc' = "updating"
    /\ b_call' = [b_call EXCEPT !.stored = TRUE]
    /\ UNCHANGED <<registry, registry_file, now, head, cli_ready, reg_trail, r_call>>

\* storage.store_database raises: before touching the directory (clean), or
\* in copytree after the old database was removed; build_database returns None.
StoreFails(clean) ==
    /\ b_pc = "storing"
    /\ storage' = IF clean THEN storage
                  ELSE [storage EXCEPT ![BuildDir] = [kind |-> "partial", rev |-> NoCommit]]
    /\ b_pc' = "done"
    /\ UNCHANGED <<registry, registry_file, now, head, cli_ready, b_call, reg_trail, r_call>>

\* CodeQLDatabaseBuilder.delete_database -> LocalCodeQLStorage.delete_database:
\* the database directory, whatever it holds, is removed; a directory that
\* does not exist is left alone. The entry of the source keeps its commit.
DeleteDatabase(area, repo_path, language) ==
    /\ b_pc = "idle"
    /\ storage' = [storage EXCEPT ![DatabaseDir(area, repo_path, language)] = NoDatabase]
    /\ UNCHANGED <<registry, registry_file, now, head, cli_ready, b_pc, b_call,
                   reg_trail, r_call>>

\* The revision as the checkout has it when the build is over.
CommitToRecordReread == head[b_call.repo_path]

\* The hash build_database hands to update_commit_hash: its current_commit.
CommitToRecord == b_call.current_commit

\* if current_commit: update_commit_hash(source_id, current_commit); then the
\* stored path is returned. A failing _save raises after the entry was
\* changed in memory and build_database returns None.
BuildFinish(save_ok) ==
    /\ b_pc = "updating"
    /\ IF b_call.current_commit # NoCommit
       THEN /\ now' = now + 1
            /\ registry' = [registry EXCEPT ![b_call.source_id] =
                    WithCommit(registry[b_call.source_id], CommitToRecord, now')]
            /\ Save(registry', save_ok)
            /\ b_call' = [b_call EXCEPT !.result =
                            IF save_ok THEN "stored_path" ELSE "None"]
       ELSE /\ save_ok
            /\ b_call' = [b_call EXCEPT !.result = "stored_path"]
            /\ UNCHANGED <<now, registry, registry_file>>
    /\ b_pc' = "done"
    /\ UNCHANGED <<head, storage, cli_ready, reg_trail, r_call>>

\* The caller has the result of build_database.
BuildReturn ==
    /\ b_pc = "done"
    /\ b_pc' = "idle"
    /\ b_call' = NoBuild
    /\ UNCHANGED <<registry, registry_file, now, head, storage, cli_ready, reg_trail, r_call>>

\* The source the build specification works on.
TheArea == "pharmacy"

ThePath == "org/repo"

TheSource == SourceId(TheArea, "gitlab", ThePath)

(***************************************************************************)
(* GraphEmitter and the graph store it writes to                           *)
(***************************************************************************)
\* Bound: how many statements of one emission the store may reject.
MaxFaults == 1

\* A key ("#1", "#2") the row does not have.
Missing == ""

Row(first, second) == [k1 |-> first, k2 |-> second]

\* query_results dictionaries, as the sequence of their (name, rows) items.
QueryResultChoices ==
    { <<>>,
      << <<"call_graph", <<Row("f", "g")>> >> >>,
      << <<"call_graph", <<Row("f", "g"), Row("f", "g")>> >>,
         <<"subprocess_calls", <<Row("f", "run.sh")>> >> >>,
      << <<"imports", <<Row("a.py", "os")>> >>,
         <<"call_graph", <<Row("f", Missing)>> >>,
         <<"data_flow", <<Row("x", "y")>> >> >> }

VARIABLES
    graph_nodes,       \* the nodes in the graph store, a bag of node records
    graph_edges,       \* the relationships in the graph store, a bag
    neo4j_available,   \* Neo4jManager._available
    g_pc,              \* position of the emit_from_codeql_results call
    g_call,            \* its arguments, what the store held before, its result
    g_last             \* the arguments of the emission completed before

gvars == <<graph_nodes, graph_edges, neo4j_available, g_pc, g_call, g_last>>

NoEmission == <<>>

NoEmit == [business_area |-> "", repo_path |-> "", query_results |-> <<>>,
           before_nodes |-> EmptyBag, before_edges |-> EmptyBag,
           delete_ok |-> TRUE, faults |-> {}, repeated |-> FALSE,
           nodes |-> 0, edges |-> 0]

EmitQuiet ==
    /\ graph_nodes = EmptyBag
    /\ graph_edges = EmptyBag
    /\ neo4j_available = FALSE
    /\ g_pc = "idle"
    /\ g_call = NoEmit
    /\ g_last = NoEmission

\* Neo4jManager._initialize settles availability once, at construction.
InitEmit ==
    /\ graph_nodes = EmptyBag
    /\ graph_edges = EmptyBag
    /\ neo4j_available \in BOOLEAN
    /\ g_pc = "idle"
    /\ g_call = NoEmit
    /\ g_last = NoEmission

\* f"{business_area}:{repo_path}:{kind}:{name}"
NodeId(area, repo, kind, name) == <<area, repo, kind, name>>

Label(kind) ==
    CASE kind = "function" -> "Function"
      [] kind = "script"   -> "Script"
      [] kind = "file"     -> "File"
      [] kind = "module"   -> "Module"

GraphNode(id, kind, area, repo) ==
    [id |-> id, label |-> Label(kind), business_area |-> area, repo |-> repo]

GraphEdge(source_id, edge_type, target_id, area, repo) ==
    [type |-> edge_type, source |-> source_id, target |-> target_id,
     business_area |-> area, repo |-> repo]

EdgeKey(source_id, edge_type, target_id) == <<source_id, edge_type, target_id>>

BagRemove(bag, gone) ==
    [x \in {y \in BagToSet(bag) : ~gone[y]} |-> bag[x]]

\* MATCH (n) WHERE n.business_area = $business_area AND n.repo = $repo_path
\* DETACH DELETE n: the nodes go, and with them every relationship they have.
DeleteRepoGraph(g, area, repo) ==
    LET dead == {n \in BagToSet(g.nodes) : n.business_area = area /\ n.repo = repo}
        dead_ids == {n.id : n \in dead}
    IN  [nodes |-> BagRemove(g.nodes, [n \in BagToSet(g.nodes) |-> n \in dead]),
         edges |-> BagRemove(g.edges, [e \in BagToSet(g.edges) |->
                        e.source \in dead_ids \/ e.target \in dead_ids])]

\* MERGE (n:Label {id: $id}) ON CREATE SET business_area, repo
MergeNode(nodes, id, kind, area, repo) ==
    IF \E n \in BagToSet(nodes) : n.id = id /\ n.label = Label(kind)
    THEN nodes
    ELSE nodes (+) SetToBag({GraphNode(id, kind, area, repo)})

\* MATCH (source {id}), (target {id}) MERGE (source)-[r:TYPE]->(target)
\* ON CREATE SET r.business_area, r.repo
MergeEdge(nodes, edges, source_id, edge_type, target_id, area, repo) ==
    IF /\ \E n \in BagToSet(nodes) : n.id = source_id
       /\ \E n \in BagToSet(nodes) : n.id = target_id
       /\ ~\E e \in BagToSet(edges) :
              e.type = edge_type /\ e.source = source_id /\ e.target = target_id
    THEN edges (+) SetToBag({GraphEdge(source_id, edge_type, target_id, area, repo)})
    ELSE edges

\* _create_*_node: the statement runs unless the store rejects it; the
\* exception is logged and the id returned either way.
CreateNode(nodes, id, kind, area, repo, faults) ==
    IF id \in faults THEN nodes ELSE MergeNode(nodes, id, kind, area, repo)

\* _create_edge, the exception logged likewise.
CreateEdge(nodes, edges, source_id, edge_type, target_id, area, repo, faults) ==
    IF EdgeKey(source_id, edge_type, target_id) \in faults THEN edges
    ELSE MergeEdge(nodes, edges, source_id, edge_type, target_id, area, repo)

\* The body of the row loop of _emit_call_graph / _emit_subprocess_calls /
\* _emit_imports: both nodes, then the edge; nodes_created and edges_created.
EmitRow(st, row, kind1, edge_type, kind2, area, repo, faults) ==
    IF row.k1 = Missing \/ row.k2 = Missing THEN st
    ELSE LET id1 == NodeId(area, repo, kind1, row.k1)
             id2 == NodeId(area, repo, kind2, row.k2)
             n1 == CreateNode(st.nodes, id1, kind1, area, repo, faults)
             n2 == CreateNode(n1, id2, kind2, area, repo, faults)
         IN  [nodes |-> n2,
              edges |-> CreateEdge(n2, st.edges, id1, edge_type, id2, area, repo, faults),
              nodes_created |-> st.nodes_created \cup {id1, id2},
              edges_created |-> st.edges_created + 1]

RECURSIVE EmitRows(_, _, _, _, _, _, _, _)
EmitRows(st, rows, kind1, edge_type, kind2, area, repo, faults) ==
    IF rows = <<>> THEN st
    ELSE EmitRows(EmitRow(st, Head(rows), kind1, edge_type, kind2, area, repo, faults),
                  Tail(rows), kind1, edge_type, kind2, area, repo, faults)

\* One item of query_results: the graph after it and the counts it returns.
EmitQuery(g, item, area, repo, faults) ==
    LET start == [nodes |-> g.nodes, edges |-> g.edges,
                  nodes_created |-> {}, edges_created |-> 0]
        name == item[1]
    IN  CASE name = "call_graph" ->
               EmitRows(start, item[2], "function", "CALLS", "function", area, repo, faults)
          [] name = "subprocess_calls" ->
               EmitRows(start, item[2], "function", "RUNS_SUBPROCESS", "script", area, repo, faults)
          [] name = "imports" ->
               EmitRows(start, item[2], "file", "IMPORTS", "module", area, repo, faults)
          [] OTHER -> start

\* for query_name, results in query_results.items(): ... node_count += nodes
RECURSIVE EmitQueries(_, _, _, _, _)
EmitQueries(acc, items, area, repo, faults) ==
    IF items = <<>> THEN acc
    ELSE LET st == EmitQuery(acc, Head(items), area, repo, faults)
         IN  EmitQueries([nodes |-> st.nodes, edges |-> st.edges,
                          node_count |-> acc.node_count + Cardinality(st.nodes_created),
                          edge_count |-> acc.edge_count + st.edges_created],
                         Tail(items), area, repo, faults)

\* The node ids and edge keys the rows of query_results name.
RECURSIVE DerivedFrom(_, _, _)
DerivedFrom(items, area, repo) ==
    IF items = <<>> THEN [nodes |-> EmptyBag, edges |-> EmptyBag]
    ELSE LET rest == DerivedFrom(Tail(items), area, repo)
             st == EmitQuery([nodes |-> rest.nodes, edges |-> rest.edges],
                             Head(items), area, repo, {})
         IN  [nodes |-> st.nodes, edges |-> st.edges]

Statements(items, area, repo) ==
    LET d == DerivedFrom(items, area, repo)
    IN  {n.id : n \in BagToSet(d.nodes)} \cup
        {EdgeKey(e.source, e.type, e.target) : e \in BagToSet(d.edges)}

\* The statements the store rejects during one call, at most MaxFaults.
FaultChoices(items, area, repo) ==
    {F \in SUBSET Statements(items, area, repo) : Cardinality(F) <= MaxFaults}

\* emit_from_codeql_results(query_results, business_area, repo_path, language):
\* nothing when Neo4j is unavailable; else _delete_repo_graph (a failure of
\* the delete statement is logged and the call goes on), then every query.
EmitFromCodeqlResults(query_results, area, repo, delete_ok, faults) ==
    /\ g_pc = "idle"
    /\ LET g0 == [nodes |-> graph_nodes, edges |-> graph_edges]
           g1 == IF delete_ok THEN DeleteRepoGraph(g0, area, repo) ELSE g0
           out == EmitQueries([nodes |-> g1.nodes, edges |-> g1.edges,
                               node_count |-> 0, edge_count |-> 0],
                              query_results, area, repo, faults)
           call == [business_area |-> area, repo_path |-> repo,
                    query_results |-> query_results,
                    before_nodes |-> graph_nodes, before_edges |-> graph_edges,
                    delete_ok |-> delete_ok, faults |-> faults,
                    repeated |-> (g_last = <<query_results, area, repo>>),
                    nodes |-> 0, edges |-> 0]
       IN  IF ~neo4j_available
           THEN /\ delete_ok /\ faults = {}
                /\ g_call' = call
                /\ UNCHANGED <<graph_nodes, graph_edges>>
           ELSE /\ graph_nodes' = out.nodes
                /\ graph_edges' = out.edges
                /\ g_call' = [call EXCEPT !.nodes = out.node_count,
                                          !.edges = out.edge_count]
    /\ g_pc' = "done"
    /\ UNCHANGED <<neo4j_available, g_last>>

\* Neo4jManager.close(): with a driver, the driver is closed and the manager
\* is unavailable from then on (is_available() does not reconnect once
\* _available is False). The store keeps what it holds.
Neo4jClose ==
    /\ g_pc = "idle"
    /\ neo4j_available
    /\ neo4j_available' = FALSE
    /\ UNCHANGED <<graph_nodes, graph_edges, g_pc, g_call, g_last>>

\* The caller has the counts.
EmitReturn ==
    /\ g_pc = "done"
    /\ g_pc' = "idle"
    /\ g_last' = <<g_call.query_results, g_call.business_area, g_call.repo_path>>
    /\ g_call' = NoEmit
    /\ UNCHANGED <<graph_nodes, graph_edges, neo4j_available>>

(***************************************************************************)
(* CodeQLQueryExecutor (src/codeql/query_executor.py).                     *)
(***************************************************************************)
\* query_map of execute_all_queries: the query files of each language.
QueryMap ==
    [python |-> <<"call_graph.ql", "subprocess_calls.ql", "imports.ql">>,
     java   |-> <<"call_graph.ql">>]

\* The languages execute_all_queries is called with; "javascript" has no
\* entry in query_map.
QueryLanguages == Languages \cup {"javascript"}

\* query_map.get(language, [])
QueriesFor(language) ==
    IF language \in DOMAIN QueryMap THEN QueryMap[language] ELSE <<>>

\* Path(query_file).stem
Stem(query_file) ==
    CASE query_file = "call_graph.ql"       -> "call_graph"
      [] query_file = "subprocess_calls.ql" -> "subprocess_calls"
      [] query_file = "imports.ql"          -> "imports"

\* The rows a run of the query finds in the database.
RowsOf(query_file) ==
    CASE query_file = "call_graph.ql"       -> <<Row("f", "g")>>
      [] query_file = "subprocess_calls.ql" -> <<Row("f", "run.sh")>>
      [] query_file = "imports.ql"          -> <<Row("a.py", "os")>>

\* What happens to one query: its file is missing, or cli.query_run returns
\* {"results": rows}, a list of rows, {"raw_output": ...}, or raises
\* CalledProcessError or TimeoutExpired.
QueryRuns == {"missing_file", "dict_results", "list", "raw_output",
              "called_process_error", "timeout"}

\* The runs of execute_query that yield rows.
GoodRuns == {"dict_results", "list"}

VARIABLES
    q_cli,    \* the executor has a CLI (get_codeql_cli() at construction)
    q_pc,     \* "idle" or "done"
    q_call    \* the execute_all_queries call whose result the caller is handed

qvars == <<q_cli, q_pc, q_call>>

NoQueryCall == [language |-> "", runs |-> <<>>, all_results |-> <<>>]

QueryQuiet ==
    /\ q_cli = TRUE
    /\ q_pc = "idle"
    /\ q_call = NoQueryCall

InitQuery ==
    /\ q_cli \in BOOLEAN
    /\ q_pc = "idle"
    /\ q_call = NoQueryCall

\* execute_query keeping the rows of a run of unexpected shape.
ExecuteQueryKeepsRaw(cli, query_file, run) ==
    IF ~cli THEN <<>>
    ELSE IF run = "missing_file" THEN <<>>
    ELSE IF run \in GoodRuns \cup {"raw_output"} THEN RowsOf(query_file)
    ELSE <<>>

\* execute_query: [] without a CLI, for a missing file, for an unexpected
\* shape and for any exception of query_run; else the rows.
ExecuteQuery(cli, query_file, run) ==
    IF ~cli THEN <<>>
    ELSE IF run = "missing_file" THEN <<>>
    ELSE IF run \in GoodRuns THEN RowsOf(query_file)
    ELSE <<>>

\* execute_all_queries: the (name, rows) items of all_results in insertion
\* order, runs[i] being what happens to the i-th query of the language.
ExecuteAllQueries(cli, language, runs) ==
    [i \in 1..Len(QueriesFor(language)) |->
        <<Stem(QueriesFor(language)[i]),
          ExecuteQuery(cli, QueriesFor(language)[i], runs[i])>>]

\* The runs a call for the language can meet.
RunChoices(language) ==
    [1..Len(QueriesFor(language)) -> QueryRuns]

\* execute_all_queries(database_path, language)
ExecuteAllQueriesCall(language, runs) ==
    /\ q_pc = "idle"
    /\ q_pc' = "done"
    /\ q_call' = [language |-> language, runs |-> runs,
                  all_results |-> ExecuteAllQueries(q_cli, language, runs)]
    /\ UNCHANGED q_cli

\* The caller has all_results.
QueryReturn ==
    /\ q_pc = "done"
    /\ q_pc' = "idle"
    /\ q_call' = NoQueryCall
    /\ UNCHANGED q_cli

(***************************************************************************)
(* CodeQLAnalysisService (src/codeql/analysis_service.py).                 *)
(***************************************************************************)
\* The "codeql" section of an area in settings.sources_config_map: no
\* section, an empty one, one without "enabled", or one whose "enabled" is
\* the given string.
CodeqlConfigChoices == {"absent", "empty", "no_enabled_key", "false", "True"}

\* The sections the pharmacy area is given; claims has one without "enabled".
PharmacyConfigChoices == CodeqlConfigChoices \ {"no_enabled_key"}

VARIABLES
    codeql_enabled,   \* settings.codeql_enabled
    codeql_config,    \* per area, the "codeql" section of its sources config
    a_pc,             \* where the analysis call is
    a_call,           \* the analyze_source call in progress and its results
    a_area            \* the analyze_business_area call in progress and its results

avars == <<codeql_enabled, codeql_config, a_pc, a_call, a_area>>

NoAnalysis ==
    [source_id |-> <<>>, business_area |-> "", repo_path |-> "",
     languages |-> <<>>, todo |-> <<>>, built |-> <<>>,
     databases |-> <<>>, queries |-> <<>>, graph |-> <<>>,
     status |-> "", reason |-> ""]

NoAreaCall ==
    [active |-> FALSE, business_area |-> "", todo |-> {}, sources |-> <<>>,
     status |-> "", reason |-> ""]

AnalyzeQuiet ==
    /\ codeql_enabled = TRUE
    /\ codeql_config = [a \in Areas |-> "no_enabled_key"]
    /\ a_pc = "idle"
    /\ a_call = NoAnalysis
    /\ a_area = NoAreaCall

InitAnalyze ==
    /\ codeql_enabled \in BOOLEAN
    /\ codeql_config \in [Areas -> CodeqlConfigChoices]
    /\ codeql_config["pharmacy"] \in PharmacyConfigChoices
    /\ codeql_config["claims"] = "no_enabled_key"
    /\ a_pc = "idle"
    /\ a_call = NoAnalysis
    /\ a_area = NoAreaCall

\* str.lower() on the values "enabled" takes here
Lower(s) == IF s = "True" THEN "true" ELSE s

\* is_codeql_enabled without the check of the global setting.
IsCodeqlEnabledAreaOnly(area) ==
    IF codeql_config[area] \in {"absent", "empty"} THEN FALSE
    ELSE Lower(IF codeql_config[area] = "no_enabled_key" THEN "true"
               ELSE codeql_config[area]) = "true"

\* CodeSourceRegistry.is_codeql_enabled: the global setting, then the area's
\* "codeql" section, then its "enabled" (default "true") lower-cased.
IsCodeqlEnabled(area) ==
    IF ~codeql_enabled THEN FALSE
    ELSE IF codeql_config[area] \in {"absent", "empty"} THEN FALSE
    ELSE Lower(IF codeql_config[area] = "no_enabled_key" THEN "true"
               ELSE codeql_config[area]) = "true"

\* list_sources(business_area) without the enabled_only filter.
ListSourcesAll(area, enabled_only) ==
    {s \in SourceIds : registry[s].registered /\ registry[s].business_area = area}

\* list_sources(business_area=area, enabled_only=enabled_only): the ids of
\* the sources it returns (the order of the dictionary is not kept here; the
\* loop over them takes them in every order).
ListSources(area, enabled_only) ==
    {s \in SourceIds : /\ registry[s].registered
                       /\ registry[s].business_area = area
                       /\ (enabled_only => registry[s].enabled)}

\* d[key] = value on a dictionary kept as the sequence of its items.
Put(d, key, value) ==
    IF \E i \in 1..Len(d) : d[i][1] = key
    THEN [i \in 1..Len(d) |-> IF d[i][1] = key THEN <<key, value>> ELSE d[i]]
    ELSE Append(d, <<key, value>>)

Get(d, key) == d[CHOOSE i \in 1..Len(d) : d[i][1] = key][2]

Keys(d) == {d[i][1] : i \in 1..Len(d)}

\* The early returns without the check of source.enabled.
SkipReasonIgnoringDisabled(source) ==
    IF ~IsCodeqlEnabled(source.business_area)
    THEN "codeql_not_enabled_for_business_area"
    ELSE ""

\* The early returns of analyze_source for a source it found: the reason of
\* the skip, "" when the analysis goes on.
SkipReason(source) ==
    IF ~source.enabled THEN "source_disabled"
    ELSE IF ~IsCodeqlEnabled(source.business_area)
         THEN "codeql_not_enabled_for_business_area"
         ELSE ""

\* analyze_source up to its loop: the result it returns at once, or the
\* results dictionary it starts with.
AnalysisStarted(source_id) ==
    LET source == registry[source_id]
    IN  IF ~source.registered
        THEN [NoAnalysis EXCEPT !.source_id = source_id, !.status = "error"]
        ELSE IF SkipReason(source) # ""
        THEN [NoAnalysis EXCEPT !.source_id = source_id, !.status = "skipped",
                                !.reason = SkipReason(source)]
        ELSE [NoAnalysis EXCEPT !.source_id = source_id,
                                !.business_area = source.business_area,
                                !.repo_path = source.path,
                                !.languages = source.languages,
                                !.todo = source.languages,
                                !.status = "running"]

\* analyze_source(source_id), called directly
AnalyzeSource(source_id) ==
    /\ a_pc = "idle"
    /\ a_call' = AnalysisStarted(source_id)
    /\ a_pc' = IF a_call'.status = "running" THEN "loop" ELSE "done"
    /\ UNCHANGED <<codeql_enabled, codeql_config, a_area>>
    /\ UNCHANGED <<bvars, gvars>>

\* The loop calls build_database for the next language.
AnalyzeBuildDatabase(cli_found) ==
    /\ a_pc = "loop"
    /\ a_call.todo # <<>>
    /\ BuildStart(a_call.source_id, Head(a_call.todo), cli_found)
    /\ a_pc' = "building"
    /\ a_call' = [a_call EXCEPT !.built = Append(@, Head(a_call.todo))]
    /\ UNCHANGED <<codeql_enabled, codeql_config, a_area>>
    /\ UNCHANGED gvars

\* The languages left when one language failed, were the loop left there.
RestAfterFailureAbort(todo) == <<>>

\* The languages left when one language failed: continue, or the end of the
\* except branch, goes to the next language.
RestAfterFailure(todo) == Tail(todo)

\* The test of the returned path that takes every result for a path.
NoDatabasePathNever(db_path) == FALSE

\* if not db_path: build_database returned None.
NoDatabasePath(db_path) == db_path = "None"

\* build_database returned: no database is recorded as "failed" and the loop
\* continues, a database as "success" and the queries follow.
AnalyzeDatabaseBuilt ==
    /\ a_pc = "building"
    /\ b_pc = "done"
    /\ BuildReturn
    /\ LET language == Head(a_call.todo)
       IN  IF NoDatabasePath(b_call.result)
           THEN /\ a_call' = [a_call EXCEPT
                        !.databases = Put(@, language, "failed"),
                        !.todo = RestAfterFailure(a_call.todo)]
                /\ a_pc' = "loop"
           ELSE /\ a_call' = [a_call EXCEPT
                        !.databases = Put(@, language, "success")]
                /\ a_pc' = "query"
    /\ UNCHANGED <<codeql_enabled, codeql_config, a_area>>
    /\ UNCHANGED gvars

\* The statements the store may reject while the results of the runs are
\* emitted for the language at hand.
EmissionFaultChoices(runs) ==
    FaultChoices(ExecuteAllQueries(q_cli, Head(a_call.todo), runs),
                 a_call.business_area, a_call.repo_path)

\* execute_all_queries, then emit_from_codeql_results is called with its
\* results; the store may reject the delete statement and statements of the
\* emission, which the emitter logs.
AnalyzeQueryAndEmit(runs, delete_ok, faults) ==
    /\ a_pc = "query"
    /\ LET language == Head(a_call.todo)
           query_results == ExecuteAllQueries(q_cli, language, runs)
       IN  /\ faults \in FaultChoices(query_results, a_call.business_area,
                                      a_call.repo_path)
           /\ EmitFromCodeqlResults(query_results, a_call.business_area,
                                    a_call.repo_path, delete_ok, faults)
           /\ a_call' = [a_call EXCEPT !.queries = Put(@, language, query_results)]
    /\ a_pc' = "emitting"
    /\ UNCHANGED <<codeql_enabled, codeql_config, a_area>>
    /\ UNCHANGED bvars

\* emit_from_codeql_results returned its counts.
AnalyzeEmitted ==
    /\ a_pc = "emitting"
    /\ g_pc = "done"
    /\ EmitReturn
    /\ a_call' = [a_call EXCEPT
            !.graph = Put(@, Head(a_call.todo), <<g_call.nodes, g_call.edges>>),
            !.todo = Tail(a_call.todo)]
    /\ a_pc' = "loop"
    /\ UNCHANGED <<codeql_enabled, codeql_config, a_area>>
    /\ UNCHANGED bvars

\* Where an emission can raise: _create_function_node and _create_file_node
\* read their argument with .get before their try, so a row whose "#1" (or,
\* in call_graph, "#2") is a plain string raises AttributeError there. A
\* point <<k, r, at>> is row r of item k, at its first or second node; script
\* and module nodes are built from any value and do not raise.
RaisePoints(items) ==
    UNION { { <<k, r, at>> :
                r \in {x \in 1..Len(items[k][2]) :
                          items[k][2][x].k1 # Missing /\ items[k][2][x].k2 # Missing},
                at \in IF items[k][1] = "call_graph" THEN {1, 2}
                       ELSE IF items[k][1] \in {"subprocess_calls", "imports"} THEN {1}
                       ELSE {} } :
            k \in 1..Len(items) }

\* The graph store when the emission raises at the point: the items before
\* item k and the rows of item k before row r are emitted, and the caller
\* node of row r as well when it is the callee that raises.
EmitUntilRaise(g, items, point, area, repo, faults) ==
    LET k == point[1]
        r == point[2]
        before == EmitQueries([nodes |-> g.nodes, edges |-> g.edges,
                               node_count |-> 0, edge_count |-> 0],
                              SubSeq(items, 1, k - 1), area, repo, faults)
        part == EmitQuery(before, <<items[k][1], SubSeq(items[k][2], 1, r - 1)>>,
                          area, repo, faults)
    IN  [nodes |-> IF point[3] = 2
                   THEN CreateNode(part.nodes,
                                   NodeId(area, repo, "function", items[k][2][r].k1),
                                   "function", area, repo, faults)
                   ELSE part.nodes,
         edges |-> part.edges]

\* emit_from_codeql_results raises at a point of the query results, after the
\* deletion and what was emitted before the point: the except branch of the
\* language loop records "error" for the language and the loop goes on.
AnalyzeEmissionRaises(runs, point, delete_ok, faults) ==
    /\ a_pc = "query"
    /\ neo4j_available
    /\ LET language == Head(a_call.todo)
           query_results == ExecuteAllQueries(q_cli, language, runs)
           g0 == [nodes |-> graph_nodes, edges |-> graph_edges]
           g1 == IF delete_ok
                 THEN DeleteRepoGraph(g0, a_call.business_area, a_call.repo_path)
                 ELSE g0
           g == EmitUntilRaise(g1, query_results, point, a_call.business_area,
                               a_call.repo_path, faults)
       IN  /\ point \in RaisePoints(query_results)
           /\ faults \in FaultChoices(query_results, a_call.business_area,
                                      a_call.repo_path)
           /\ graph_nodes' = g.nodes
           /\ graph_edges' = g.edges
           /\ a_call' = [a_call EXCEPT
                    !.queries = Put(@, language, query_results),
                    !.databases = Put(@, language, "error"),
                    !.todo = RestAfterFailure(a_call.todo)]
    /\ a_pc' = "loop"
    /\ UNCHANGED <<neo4j_available, g_pc, g_call, g_last>>
    /\ UNCHANGED <<codeql_enabled, codeql_config, a_area>>
    /\ UNCHANGED bvars

\* The loop is over: results["status"] = "success".
AnalyzeSourceFinish ==
    /\ a_pc = "loop"
    /\ a_call.todo = <<>>
    /\ a_call' = [a_call EXCEPT !.status = "success"]
    /\ a_pc' = "done"
    /\ UNCHANGED <<codeql_enabled, codeql_config, a_area>>
    /\ UNCHANGED <<bvars, gvars>>

\* The direct caller of analyze_source has the result.
AnalyzeSourceReturn ==
    /\ a_pc = "done"
    /\ ~a_area.active
    /\ a_pc' = "idle"
    /\ a_call' = NoAnalysis
    /\ UNCHANGED <<codeql_enabled, codeql_config, a_area>>
    /\ UNCHANGED <<bvars, gvars>>

\* analyze_business_area before its loop: skipped when the area is not
\* enabled or has no enabled source, else the enabled sources are to do.
AreaStarted(area) ==
    IF ~IsCodeqlEnabled(area)
    THEN [NoAreaCall EXCEPT !.business_area = area,
                            !.status = "skipped",
                            !.reason = "codeql_not_enabled_for_business_area"]
    ELSE IF ListSources(area, TRUE) = {}
    THEN [NoAreaCall EXCEPT !.business_area = area,
                            !.status = "skipped",
                            !.reason = "no_sources_registered"]
    ELSE [NoAreaCall EXCEPT !.business_area = area,
                            !.active = TRUE,
                            !.todo = ListSources(area, TRUE),
                            !.status = "running"]

\* analyze_business_area(business_area) up to its loop
AnalyzeBusinessArea(area) ==
    /\ a_pc = "idle"
    /\ a_area' = AreaStarted(area)
    /\ a_pc' = IF a_area'.active THEN "area" ELSE "area_done"
    /\ UNCHANGED <<codeql_enabled, codeql_config, a_call>>
    /\ UNCHANGED <<bvars, gvars>>

\* The loop of analyze_business_area calls analyze_source for a next source.
AreaNextSource(source_id) ==
    /\ a_pc = "area"
    /\ source_id \in a_area.todo
    /\ a_area' = [a_area EXCEPT !.todo = @ \ {source_id}]
    /\ a_call' = AnalysisStarted(source_id)
    /\ a_pc' = IF a_call'.status = "running" THEN "loop" ELSE "done"
    /\ UNCHANGED <<codeql_enabled, codeql_config>>
    /\ UNCHANGED <<bvars, gvars>>

\* results["sources"][source.source_id] = source_result
AreaCollect ==
    /\ a_pc = "done"
    /\ a_area.active
    /\ a_area' = [a_area EXCEPT !.sources =
                    Put(@, registry[a_call.source_id].source_id,
                        [status |-> a_call.status, databases |-> a_call.databases])]
    /\ a_call' = NoAnalysis
    /\ a_pc' = "area"
    /\ UNCHANGED <<codeql_enabled, codeql_config>>
    /\ UNCHANGED <<bvars, gvars>>

\* The loop over the sources is over: results["status"] = "success".
AreaFinish ==
    /\ a_pc = "area"
    /\ a_area.todo = {}
    /\ a_area' = [a_area EXCEPT !.status = "success"]
    /\ a_pc' = "area_done"
    /\ UNCHANGED <<codeql_enabled, codeql_config, a_call>>
    /\ UNCHANGED <<bvars, gvars>>

\* The caller of analyze_business_area has the result.
AreaReturn ==
    /\ a_pc = "area_done"
    /\ a_pc' = "idle"
    /\ a_area' = NoAreaCall
    /\ UNCHANGED <<codeql_enabled, codeql_config, a_call>>
    /\ UNCHANGED <<bvars, gvars>>

(***************************************************************************)
(* ChangeDetector (src/ingestion/change_detector.py).                      *)
(***************************************************************************)
\* Business areas and source identifiers the detector is called with. The
\* service builds a source identifier as f"{source.value}_{space_key}".
SyncAreas == {"claims", "claims_eu"}

SyncSources == {"confluence_CLM", "eu_confluence_CLM"}

\* key = f"{business_area}_{source}"
MetadataKey(area, source) ==
    CASE area = "claims"    /\ source = "confluence_CLM"    -> "claims_confluence_CLM"
      [] area = "claims"    /\ source = "eu_confluence_CLM" -> "claims_eu_confluence_CLM"
      [] area = "claims_eu" /\ source = "confluence_CLM"    -> "claims_eu_confluence_CLM"
      [] area = "claims_eu" /\ source = "eu_confluence_CLM" -> "claims_eu_eu_confluence_CLM"

MetadataKeys == {MetadataKey(a, s) : a \in SyncAreas, s \in SyncSources}

\* The document id lists of the calls; a connector may list an id twice.
IdListChoices == {<<>>, <<"d1", "d2">>, <<"d2", "d3", "d2">>}

NoEntry == <<"no_entry">>

VARIABLES
    metadata,        \* self.metadata: per key, document_ids or NoEntry
    metadata_file,   \* the metadata file: "absent", "corrupt" or the dictionary written
    last_synced,     \* per (area, source), the ids of its last update_sync_metadata
    c_pc,            \* "idle" or "done"
    c_call           \* the detect_changes call whose result the caller is handed

cvars == <<metadata, metadata_file, last_synced, c_pc, c_call>>

NoDetection == [business_area |-> "", source |-> "", current |-> <<>>,
                before |-> <<>>, added |-> {}, deleted |-> {}, existing |-> {}]

ChangeQuiet ==
    /\ metadata = [k \in MetadataKeys |-> NoEntry]
    /\ metadata_file = "absent"
    /\ last_synced = [p \in SyncAreas \X SyncSources |-> <<>>]
    /\ c_pc = "idle"
    /\ c_call = NoDetection

\* _load_metadata: {} when the file is missing or does not parse.
LoadMetadata(file) ==
    IF file \in {"absent", "corrupt"} THEN [k \in MetadataKeys |-> NoEntry] ELSE file

\* _save_metadata: open(file, "w") and json.dump; an exception is logged and
\* swallowed, the file left as it was or truncated.
SaveMetadata(new_metadata, save_ok) ==
    metadata_file' \in IF save_ok THEN {new_metadata} ELSE {metadata_file, "corrupt"}

\* get_stored_document_ids: the document_ids under the key, [] without one.
GetStoredDocumentIds(area, source) ==
    IF metadata[MetadataKey(area, source)] # NoEntry
    THEN metadata[MetadataKey(area, source)]
    ELSE <<>>

\* update_sync_metadata(business_area, source, document_ids)
UpdateSyncMetadata(area, source, document_ids, save_ok) ==
    /\ c_pc = "idle"
    /\ metadata' = [metadata EXCEPT ![MetadataKey(area, source)] = document_ids]
    /\ SaveMetadata(metadata', save_ok)
    /\ last_synced' = [last_synced EXCEPT ![<<area, source>>] = document_ids]
    /\ UNCHANGED <<c_pc, c_call>>

\* detect_changes(business_area, source, current_document_ids); the three
\* lists are list(set), kept here as the sets they hold.
DetectChanges(area, source, current_document_ids) ==
    /\ c_pc = "idle"
    /\ LET stored_ids == Range(GetStoredDocumentIds(area, source))
           current_ids == Range(current_document_ids)
       IN  c_call' = [business_area |-> area, source |-> source,
                      current |-> current_document_ids,
                      before |-> metadata,
                      added |-> current_ids \ stored_ids,
                      deleted |-> stored_ids \ current_ids,
                      existing |-> current_ids \cap stored_ids]
    /\ c_pc' = "done"
    /\ UNCHANGED <<metadata, metadata_file, last_synced>>

\* The caller has the changes.
DetectReturn ==
    /\ c_pc = "done"
    /\ c_pc' = "idle"
    /\ c_call' = NoDetection
    /\ UNCHANGED <<metadata, metadata_file, last_synced>>

(***************************************************************************)
(* Background analysis tasks (src/app/api/routes.py): POST /analyze adds   *)
(* run_code_analysis as a background task of the one event loop.           *)
(***************************************************************************)
\* The analysis requests accepted over a behaviour.
MaxRequests == 2

VARIABLES
    t_accepted,   \* number of /analyze requests accepted so far
    t_pending,    \* the background tasks added and not started, with their arguments
    t_running,    \* number of the task the event loop runs, 0 when none
    t_other       \* a task suspended inside analyze_source, with its position

tvars == <<t_accepted, t_pending, t_running, t_other>>

NoTask == [task |-> 0, a_pc |-> "idle", a_call |-> NoAnalysis,
           a_area |-> NoAreaCall, b_pc |-> "idle", b_call |-> NoBuild]

\* A request or a task without source_id, without business_area.
NoSourceId == <<>>
NoBusinessArea == ""

TasksQuiet ==
    /\ t_accepted = 0
    /\ t_pending = <<>>
    /\ t_running = 0
    /\ t_other = NoTask

\* The event loop as it would be were the CLI invocation a suspension point
\* (cli.database_create awaited): another task may start while the running
\* analysis waits for the CLI build.
EventLoopFreeDuringCliBuild ==
    \/ a_pc = "idle"
    \/ a_pc = "building" /\ b_pc = "building" /\ t_other = NoTask

\* Another task of the event loop can start only when the running coroutine
\* suspends or ends.  analyze_source and build_database contain no await
\* (the CLI runs under the blocking subprocess.run), and run_code_analysis
\* awaits analyze_source only: a started analysis runs to its end.
EventLoopFree == a_pc = "idle"

\* trigger_code_analysis: with a source_id, 404 for an unknown source; else
\* with a business_area, 400 when the area is not enabled; else 400.  An
\* accepted request does background_tasks.add_task(run_code_analysis, ...)
\* with the one argument it used.  The endpoint is a coroutine of the same
\* event loop; the task starts after the response of its request is sent.
TriggerCodeAnalysis(source_id, business_area) ==
    /\ a_pc = "idle"
    /\ t_accepted < MaxRequests
    /\ IF source_id # NoSourceId
       THEN /\ registry[source_id].registered
            /\ t_pending' = Append(t_pending,
                    [task |-> t_accepted + 1, source_id |-> source_id,
                     business_area |-> NoBusinessArea])
       ELSE /\ business_area # NoBusinessArea
            /\ IsCodeqlEnabled(business_area)
            /\ t_pending' = Append(t_pending,
                    [task |-> t_accepted + 1, source_id |-> NoSourceId,
                     business_area |-> business_area])
    /\ t_accepted' = t_accepted + 1
    /\ UNCHANGED <<t_running, t_other>>

\* run_code_analysis starts: await analyze_source(source_id) when it was given
\* a source_id, else await analyze_business_area(business_area).  Each task
\* starts once the response of its own request is sent, so the tasks of
\* requests accepted together start in either order: k is the place of the
\* starting task among the pending ones.  A task that is suspended at that
\* moment keeps its position in t_other.
RunCodeAnalysis(k) ==
    /\ k \in DOMAIN t_pending
    /\ EventLoopFree
    /\ t_other' = IF a_pc = "idle" THEN t_other
                  ELSE [task |-> t_running, a_pc |-> a_pc, a_call |-> a_call,
                        a_area |-> a_area, b_pc |-> b_pc, b_call |-> b_call]
    /\ t_running' = t_pending[k].task
    /\ t_pending' = [i \in 1..(Len(t_pending) - 1) |->
                        IF i < k THEN t_pending[i] ELSE t_pending[i + 1]]
    /\ IF t_pending[k].source_id # NoSourceId
       THEN /\ a_call' = AnalysisStarted(t_pending[k].source_id)
            /\ a_area' = NoAreaCall
            /\ a_pc' = IF a_call'.status = "running" THEN "loop" ELSE "done"
       ELSE /\ a_area' = AreaStarted(t_pending[k].business_area)
            /\ a_call' = NoAnalysis
            /\ a_pc' = IF a_area'.active THEN "area" ELSE "area_done"
    /\ b_pc' = "idle"
    /\ b_call' = NoBuild
    /\ UNCHANGED t_accepted
    /\ UNCHANGED <<codeql_enabled, codeql_config>>
    /\ UNCHANGED <<registry, registry_file, now, head, storage, cli_ready,
                   reg_trail, r_call>>

\* run_code_analysis ends; a task that was suspended goes on where it was.
RunCodeAnalysisReturn ==
    /\ \/ a_pc = "done" /\ ~a_area.active
       \/ a_pc = "area_done"
    /\ t_running # 0
    /\ IF t_other = NoTask
       THEN /\ a_pc' = "idle"
            /\ a_call' = NoAnalysis
            /\ a_area' = NoAreaCall
            /\ t_running' = 0
            /\ UNCHANGED <<b_pc, b_call>>
       ELSE /\ a_pc' = t_other.a_pc
            /\ a_call' = t_other.a_call
            /\ a_area' = t_other.a_area
            /\ b_pc' = t_other.b_pc
            /\ b_call' = t_other.b_call
            /\ t_running' = t_other.task
    /\ t_other' = NoTask
    /\ UNCHANGED <<t_accepted, t_pending>>
    /\ UNCHANGED <<codeql_enabled, codeql_config>>
    /\ UNCHANGED <<registry, registry_file, now, head, storage, cli_ready,
                   reg_trail, r_call>>

(***************************************************************************)
(* Specifications: one per component, the others held still.               *)
(***************************************************************************)
vars == <<hvars, dvars, bvars, gvars, qvars, avars, cvars, tvars>>

InitHybrid == HybridIdle /\ DispatchQuiet /\ BuildQuiet /\ EmitQuiet /\ QueryQuiet /\ AnalyzeQuiet /\ ChangeQuiet /\ TasksQuiet

NextHybrid ==
    \/ HybridReturn /\ UNCHANGED <<dvars, bvars, gvars, qvars, avars, cvars, tvars>>
    \/ \E area \in Areas, docs \in InjectiveSeqs(DocIds, Cardinality(DocIds)) \ {<<>>} :
          BuildBm25Index(area, docs) /\ UNCHANGED <<dvars, bvars, gvars, qvars, avars, cvars, tvars>>
    \/ \E area \in Areas, top_k \in 1..MaxTopK :
          HybridSearchAwaitDense(area, top_k) /\ UNCHANGED <<dvars, bvars, gvars, qvars, avars, cvars, tvars>>
    \/ \E area \in Areas, top_k \in 1..MaxTopK :
          HybridSearchDenseFails(area, top_k) /\ UNCHANGED <<dvars, bvars, gvars, qvars, avars, cvars, tvars>>
    \/ \E area \in {h_call.area} \cap Areas, top_k \in {h_call.top_k} \cap (1..MaxTopK) :
       \E dense \in InjectiveSeqs(DocIds, Min(2 * top_k, Cardinality(DocIds))) :
       \E scores \in [1..(IF bm25_indexes[area] = NoIndex THEN 0
                           ELSE Len(bm25_indexes[area])) -> Bm25Scores] :
          HybridSearch(area, top_k, dense, scores) /\ UNCHANGED <<dvars, bvars, gvars, qvars, avars, cvars, tvars>>

SpecHybrid == InitHybrid /\ [][NextHybrid]_vars

\* The engine with build_bm25_index at the grain of its two assignments: the
\* coroutines of the event loop take their steps when no synchronous call is
\* under way.  The rebuilds are over every list of two chunks.
RebuildLists == {docs \in InjectiveSeqs(DocIds, Cardinality(DocIds)) : Len(docs) = 2}

\* hybrid_search goes on after its await: the dense results arrive, and
\* bm25_search and the fusion follow in the same step.
HybridSearchResumes ==
    /\ LoopFreeOfBuild
    /\ h_call.status = "dense"
    /\ \E dense \in InjectiveSeqs(DocIds, Min(2 * h_call.top_k, Cardinality(DocIds))) :
       \E scores \in [1..(IF bm25_indexes[h_call.area] = NoIndex THEN 0
                           ELSE Len(bm25_indexes[h_call.area])) -> Bm25Scores] :
          HybridSearch(h_call.area, h_call.top_k, dense, scores)

NextRebuild ==
    \/ LoopFreeOfBuild /\ HybridReturn
          /\ UNCHANGED <<dvars, bvars, gvars, qvars, avars, cvars, tvars>>
    \/ \E area \in Areas, docs \in RebuildLists :
          BuildBm25IndexAssignIndex(area, docs) /\ UNCHANGED <<dvars, bvars, gvars, qvars, avars, cvars, tvars>>
    \/ BuildBm25IndexAssignDocuments /\ UNCHANGED <<dvars, bvars, gvars, qvars, avars, cvars, tvars>>
    \/ \E area \in Areas, top_k \in 1..MaxTopK :
          LoopFreeOfBuild /\ HybridSearchAwaitDense(area, top_k)
          /\ UNCHANGED <<dvars, bvars, gvars, qvars, avars, cvars, tvars>>
    \/ LoopFreeOfBuild /\ HybridSearchDenseFails(h_call.area, h_call.top_k)
          /\ UNCHANGED <<dvars, bvars, gvars, qvars, avars, cvars, tvars>>
    \/ HybridSearchResumes /\ UNCHANGED <<dvars, bvars, gvars, qvars, avars, cvars, tvars>>

SpecRebuild == InitHybrid /\ [][NextRebuild]_vars

InitDispatchSpec == InitDispatch /\ HybridIdle /\ BuildQuiet /\ EmitQuiet /\ QueryQuiet /\ AnalyzeQuiet /\ ChangeQuiet /\ TasksQuiet

NextDispatch ==
    \/ \E name \in {"extra", "docs"} :
          RegisterRetriever(name) /\ UNCHANGED <<hvars, bvars, gvars, qvars, avars, cvars, tvars>>
    \/ \E area \in Areas \cup {UnknownArea}, sources \in SourcesArgChoices,
          filters \in FilterChoices :
          RetrieveStart(area, sources, filters) /\ UNCHANGED <<hvars, bvars, gvars, qvars, avars, cvars, tvars>>
    \/ DispatchNextSource /\ UNCHANGED <<hvars, bvars, gvars, qvars, avars, cvars, tvars>>
    \/ DispatchNotRegistered /\ UNCHANGED <<hvars, bvars, gvars, qvars, avars, cvars, tvars>>
    \/ DispatchAwait /\ UNCHANGED <<hvars, bvars, gvars, qvars, avars, cvars, tvars>>
    \/ \E outcome \in {"ok", "empty", "error", "unavailable"} :
          DispatchInvoke(outcome) /\ UNCHANGED <<hvars, bvars, gvars, qvars, avars, cvars, tvars>>
    \/ DispatchInvokeRaises /\ UNCHANGED <<hvars, bvars, gvars, qvars, avars, cvars, tvars>>
    \/ DispatchReturn /\ UNCHANGED <<hvars, bvars, gvars, qvars, avars, cvars, tvars>>
    \/ DispatchFinish /\ UNCHANGED <<hvars, bvars, gvars, qvars, avars, cvars, tvars>>

SpecDispatch == InitDispatchSpec /\ [][NextDispatch]_vars

\* Builds of one registered source, in both languages, while its checkout
\* moves between revisions.
InitBuildSpec == InitBuild /\ HybridIdle /\ DispatchQuiet /\ EmitQuiet /\ QueryQuiet /\ AnalyzeQuiet /\ ChangeQuiet /\ TasksQuiet

NextBuild ==
    \/ \E save_ok \in BOOLEAN :
          Register(TheArea, "gitlab", ThePath, <<"python", "java">>, TRUE, save_ok)
          /\ UNCHANGED <<hvars, dvars, gvars, qvars, avars, cvars, tvars>>
    \/ \E h \in Revs, save_ok \in BOOLEAN :
          UpdateCommitHash(TheSource, h, save_ok) /\ UNCHANGED <<hvars, dvars, gvars, qvars, avars, cvars, tvars>>
    \/ \E rev \in Revs \cup {NoCommit} :
          Checkout(ThePath, rev) /\ UNCHANGED <<hvars, dvars, gvars, qvars, avars, cvars, tvars>>
    \/ \E language \in Languages, cli_found \in BOOLEAN :
          BuildStart(TheSource, language, cli_found) /\ UNCHANGED <<hvars, dvars, gvars, qvars, avars, cvars, tvars>>
    \/ CliBuildSucceeds /\ UNCHANGED <<hvars, dvars, gvars, qvars, avars, cvars, tvars>>
    \/ CliBuildFails /\ UNCHANGED <<hvars, dvars, gvars, qvars, avars, cvars, tvars>>
    \/ StoreSucceeds /\ UNCHANGED <<hvars, dvars, gvars, qvars, avars, cvars, tvars>>
    \/ \E clean \in BOOLEAN : StoreFails(clean) /\ UNCHANGED <<hvars, dvars, gvars, qvars, avars, cvars, tvars>>
    \/ \E save_ok \in BOOLEAN : BuildFinish(save_ok) /\ UNCHANGED <<hvars, dvars, gvars, qvars, avars, cvars, tvars>>
    \/ \E language \in Languages :
          DeleteDatabase(TheArea, ThePath, language) /\ UNCHANGED <<hvars, dvars, gvars, qvars, avars, cvars, tvars>>
    \/ BuildReturn /\ UNCHANGED <<hvars, dvars, gvars, qvars, avars, cvars, tvars>>

SpecBuild == InitBuildSpec /\ [][NextBuild]_vars

\* The registry alone: registrations under generated and given ids, commit
\* updates, deletions, failing writes and restarts.
RegistrationChoices ==
    { <<"pharmacy", "gitlab", "org/repo">>,
      <<"pharmacy", "gitlab", "org_repo">> }

\* (languages, enabled) as a caller may give them.
FieldChoices == { << <<"python", "java">>, TRUE >>, << <<"python">>, FALSE >> }

InitRegistrySpec == BuildQuiet /\ HybridIdle /\ DispatchQuiet /\ EmitQuiet /\ QueryQuiet /\ AnalyzeQuiet /\ ChangeQuiet /\ TasksQuiet

NextRegistry ==
    \/ \E c \in RegistrationChoices, f \in FieldChoices, save_ok \in BOOLEAN :
          Register(c[1], c[2], c[3], f[1], f[2], save_ok)
          /\ UNCHANGED <<hvars, dvars, gvars, qvars, avars, cvars, tvars>>
    \/ \E save_ok \in BOOLEAN :
          RegisterAs(CustomId, "pharmacy", "gitlab", "org/repo", <<"python">>, TRUE, save_ok)
          /\ UNCHANGED <<hvars, dvars, gvars, qvars, avars, cvars, tvars>>
    \/ \E source_id \in SourceIds, h \in Revs, save_ok \in BOOLEAN :
          UpdateCommitHash(source_id, h, save_ok) /\ UNCHANGED <<hvars, dvars, gvars, qvars, avars, cvars, tvars>>
    \/ \E source_id \in SourceIds, save_ok \in BOOLEAN :
          Delete(source_id, save_ok) /\ UNCHANGED <<hvars, dvars, gvars, qvars, avars, cvars, tvars>>
    \/ \E op \in {"update_commit_hash", "delete"} :
          UnknownSource(op, CustomId) /\ UNCHANGED <<hvars, dvars, gvars, qvars, avars, cvars, tvars>>
    \/ Restart /\ UNCHANGED <<hvars, dvars, gvars, qvars, avars, cvars, tvars>>

SpecRegistry == InitRegistrySpec /\ [][NextRegistry]_vars

\* Emissions for one repository, with every store failure, next to emissions
\* for a second repository of the same business area.
TheRepo == "org/repo"

OtherRepo == "org/other"

InitEmitSpec == InitEmit /\ HybridIdle /\ DispatchQuiet /\ BuildQuiet /\ QueryQuiet /\ AnalyzeQuiet /\ ChangeQuiet /\ TasksQuiet

NextEmit ==
    \/ \E query_results \in QueryResultChoices, delete_ok \in BOOLEAN :
       \E faults \in FaultChoices(query_results, TheArea, TheRepo) :
          EmitFromCodeqlResults(query_results, TheArea, TheRepo, delete_ok, faults)
          /\ UNCHANGED <<hvars, dvars, bvars, qvars, avars, cvars, tvars>>
    \/ EmitFromCodeqlResults(<< <<"call_graph", <<Row("f", "g")>> >> >>,
                             TheArea, OtherRepo, TRUE, {})
          /\ UNCHANGED <<hvars, dvars, bvars, qvars, avars, cvars, tvars>>
    \/ EmitReturn /\ UNCHANGED <<hvars, dvars, bvars, qvars, avars, cvars, tvars>>
    \/ Neo4jClose /\ UNCHANGED <<hvars, dvars, bvars, qvars, avars, cvars, tvars>>

SpecEmit == InitEmitSpec /\ [][NextEmit]_vars

InitQuerySpec == InitQuery /\ HybridIdle /\ DispatchQuiet /\ BuildQuiet /\ EmitQuiet /\ AnalyzeQuiet /\ ChangeQuiet /\ TasksQuiet

NextQuery ==
    \/ \E language \in QueryLanguages : \E runs \in RunChoices(language) :
          ExecuteAllQueriesCall(language, runs)
          /\ UNCHANGED <<hvars, dvars, bvars, gvars, avars, cvars, tvars>>
    \/ QueryReturn /\ UNCHANGED <<hvars, dvars, bvars, gvars, avars, cvars, tvars>>

SpecQuery == InitQuerySpec /\ [][NextQuery]_vars

\* The sources the analysis specification registers, in this order: two
\* enabled sources of pharmacy, a disabled one, and one of another area.
AnalyzedSources ==
    << <<"pharmacy", "gitlab", "org/repo", <<"python", "java">>, TRUE>>,
       <<"pharmacy", "filesystem", "org/repo", <<"python">>, FALSE>>,
       <<"claims", "gitlab", "org/repo", <<"python">>, TRUE>>,
       <<"pharmacy", "gitlab", "org/other", <<"python">>, TRUE>> >>

AnalyzedId(i) == SourceId(AnalyzedSources[i][1], AnalyzedSources[i][2],
                          AnalyzedSources[i][3])

\* The runs of the queries the analysis specification draws from.
AnalysisRunChoices(language) ==
    {runs \in RunChoices(language) :
        \/ \A i \in DOMAIN runs : runs[i] = "dict_results"
        \/ \A i \in DOMAIN runs : runs[i] = "timeout"}

\* The emission raises at the caller of the first row of the first query.
FirstPoint == <<1, 1, 1>>

InitAnalyzeSpec ==
    /\ InitAnalyze /\ InitEmit /\ neo4j_available
    /\ BuildQuiet /\ HybridIdle /\ DispatchQuiet /\ QueryQuiet /\ ChangeQuiet /\ TasksQuiet

NextAnalyze ==
    \/ \E i \in DOMAIN AnalyzedSources :
          /\ a_pc = "idle"
          /\ ~registry[AnalyzedId(i)].registered
          /\ \A j \in 1..(i - 1) : registry[AnalyzedId(j)].registered
          /\ Register(AnalyzedSources[i][1], AnalyzedSources[i][2],
                      AnalyzedSources[i][3], AnalyzedSources[i][4],
                      AnalyzedSources[i][5], TRUE)
          /\ UNCHANGED <<hvars, dvars, gvars, qvars, avars, cvars, tvars>>
    \/ /\ a_pc = "idle"
       /\ Checkout(ThePath, "r1")
       /\ UNCHANGED <<hvars, dvars, gvars, qvars, avars, cvars, tvars>>
    \/ \E i \in DOMAIN AnalyzedSources :
          AnalyzeSource(AnalyzedId(i)) /\ UNCHANGED <<hvars, dvars, qvars, cvars, tvars>>
    \/ \E cli_found \in BOOLEAN :
          AnalyzeBuildDatabase(cli_found) /\ UNCHANGED <<hvars, dvars, qvars, cvars, tvars>>
    \/ CliBuildSucceeds /\ UNCHANGED <<hvars, dvars, gvars, qvars, avars, cvars, tvars>>
    \/ CliBuildFails /\ UNCHANGED <<hvars, dvars, gvars, qvars, avars, cvars, tvars>>
    \/ StoreSucceeds /\ UNCHANGED <<hvars, dvars, gvars, qvars, avars, cvars, tvars>>
    \/ StoreFails(TRUE) /\ UNCHANGED <<hvars, dvars, gvars, qvars, avars, cvars, tvars>>
    \/ BuildFinish(TRUE) /\ UNCHANGED <<hvars, dvars, gvars, qvars, avars, cvars, tvars>>
    \/ AnalyzeDatabaseBuilt /\ UNCHANGED <<hvars, dvars, qvars, cvars, tvars>>
    \/ /\ a_pc = "query"
       /\ \E runs \in AnalysisRunChoices(Head(a_call.todo)), delete_ok \in BOOLEAN :
             AnalyzeQueryAndEmit(runs, delete_ok, {})
             /\ UNCHANGED <<hvars, dvars, qvars, cvars, tvars>>
    \/ /\ a_pc = "query"
       /\ \E runs \in AnalysisRunChoices(Head(a_call.todo)) :
             AnalyzeEmissionRaises(runs, FirstPoint, TRUE, {})
             /\ UNCHANGED <<hvars, dvars, qvars, cvars, tvars>>
    \/ AnalyzeEmitted /\ UNCHANGED <<hvars, dvars, qvars, cvars, tvars>>
    \/ AnalyzeSourceFinish /\ UNCHANGED <<hvars, dvars, qvars, cvars, tvars>>
    \/ AnalyzeSourceReturn /\ UNCHANGED <<hvars, dvars, qvars, cvars, tvars>>
    \/ \E area \in Areas :
          AnalyzeBusinessArea(area) /\ UNCHANGED <<hvars, dvars, qvars, cvars, tvars>>
    \/ \E source_id \in SourceIds :
          AreaNextSource(source_id) /\ UNCHANGED <<hvars, dvars, qvars, cvars, tvars>>
    \/ AreaCollect /\ UNCHANGED <<hvars, dvars, qvars, cvars, tvars>>
    \/ AreaFinish /\ UNCHANGED <<hvars, dvars, qvars, cvars, tvars>>
    \/ AreaReturn /\ UNCHANGED <<hvars, dvars, qvars, cvars, tvars>>

SpecAnalyze == InitAnalyzeSpec /\ [][NextAnalyze]_vars

\* The analysis of one source with two languages, in an area that is enabled,
\* against a graph store that rejects statements: the delete statement, a
\* MERGE, or a row that makes the emission raise at any of its points; the
\* connection to the store may be closed between two analyses.
InitSourceSpec ==
    /\ InitAnalyzeSpec
    /\ codeql_enabled
    /\ codeql_config["pharmacy"] = "True"

NextSource ==
    \/ /\ a_pc = "idle"
       /\ ~registry[TheSource].registered
       /\ Register(TheArea, "gitlab", ThePath, <<"python", "java">>, TRUE, TRUE)
       /\ UNCHANGED <<hvars, dvars, gvars, qvars, avars, cvars, tvars>>
    \/ /\ a_pc = "idle"
       /\ Checkout(ThePath, "r1")
       /\ UNCHANGED <<hvars, dvars, gvars, qvars, avars, cvars, tvars>>
    \/ /\ a_pc = "idle"
       /\ Neo4jClose
       /\ UNCHANGED <<hvars, dvars, bvars, qvars, avars, cvars, tvars>>
    \/ AnalyzeSource(TheSource) /\ UNCHANGED <<hvars, dvars, qvars, cvars, tvars>>
    \/ \E cli_found \in BOOLEAN :
          AnalyzeBuildDatabase(cli_found) /\ UNCHANGED <<hvars, dvars, qvars, cvars, tvars>>
    \/ CliBuildSucceeds /\ UNCHANGED <<hvars, dvars, gvars, qvars, avars, cvars, tvars>>
    \/ CliBuildFails /\ UNCHANGED <<hvars, dvars, gvars, qvars, avars, cvars, tvars>>
    \/ StoreSucceeds /\ UNCHANGED <<hvars, dvars, gvars, qvars, avars, cvars, tvars>>
    \/ StoreFails(TRUE) /\ UNCHANGED <<hvars, dvars, gvars, qvars, avars, cvars, tvars>>
    \/ BuildFinish(TRUE) /\ UNCHANGED <<hvars, dvars, gvars, qvars, avars, cvars, tvars>>
    \/ AnalyzeDatabaseBuilt /\ UNCHANGED <<hvars, dvars, qvars, cvars, tvars>>
    \/ /\ a_pc = "query"
       /\ \E runs \in AnalysisRunChoices(Head(a_call.todo)), delete_ok \in BOOLEAN :
          \E faults \in EmissionFaultChoices(runs) :
             AnalyzeQueryAndEmit(runs, delete_ok, faults)
             /\ UNCHANGED <<hvars, dvars, qvars, cvars, tvars>>
    \/ /\ a_pc = "query"
       /\ \E runs \in AnalysisRunChoices(Head(a_call.todo)), delete_ok \in BOOLEAN :
          \E faults \in EmissionFaultChoices(runs),
             point \in RaisePoints(ExecuteAllQueries(q_cli, Head(a_call.todo), runs)) :
             AnalyzeEmissionRaises(runs, point, delete_ok, faults)
             /\ UNCHANGED <<hvars, dvars, qvars, cvars, tvars>>
    \/ AnalyzeEmitted /\ UNCHANGED <<hvars, dvars, qvars, cvars, tvars>>
    \/ AnalyzeSourceFinish /\ UNCHANGED <<hvars, dvars, qvars, cvars, tvars>>
    \/ AnalyzeSourceReturn /\ UNCHANGED <<hvars, dvars, qvars, cvars, tvars>>

SpecSource == InitSourceSpec /\ [][NextSource]_vars

InitChangeSpec ==
    /\ ChangeQuiet
    /\ HybridIdle /\ DispatchQuiet /\ BuildQuiet /\ EmitQuiet /\ QueryQuiet /\ AnalyzeQuiet /\ TasksQuiet

NextChange ==
    \/ \E area \in SyncAreas, source \in SyncSources, ids \in IdListChoices :
          UpdateSyncMetadata(area, source, ids, TRUE)
          /\ UNCHANGED <<hvars, dvars, bvars, gvars, qvars, avars, tvars>>
    \/ \E area \in SyncAreas, source \in SyncSources, ids \in IdListChoices :
          DetectChanges(area, source, ids)
          /\ UNCHANGED <<hvars, dvars, bvars, gvars, qvars, avars, tvars>>
    \/ DetectReturn /\ UNCHANGED <<hvars, dvars, bvars, gvars, qvars, avars, tvars>>

SpecChange == InitChangeSpec /\ [][NextChange]_vars

\* The source the task specification analyses, and its checkout; the area has
\* a second enabled source, at a path that is no Git repository.
TaskPath == "org/other"

TaskSource == SourceId(TheArea, "gitlab", TaskPath)

\* The requests made: for the source, or for its whole area.
TaskRequests == {<<TaskSource, NoBusinessArea>>, <<NoSourceId, TheArea>>}

InitTasksSpec ==
    /\ InitAnalyze /\ InitEmit /\ neo4j_available /\ TasksQuiet
    /\ BuildQuiet /\ HybridIdle /\ DispatchQuiet /\ QueryQuiet /\ ChangeQuiet

NextTasks ==
    \/ /\ a_pc = "idle"
       /\ ~registry[TaskSource].registered
       /\ Register(TheArea, "gitlab", TaskPath, <<"python">>, TRUE, TRUE)
       /\ UNCHANGED <<hvars, dvars, gvars, qvars, avars, cvars, tvars>>
    \/ Checkout(TaskPath, "r1") /\ UNCHANGED <<hvars, dvars, gvars, qvars, avars, cvars, tvars>>
    \/ /\ a_pc = "idle"
       /\ registry[TaskSource].registered
       /\ ~registry[TheSource].registered
       /\ t_accepted = 0
       /\ Register(TheArea, "gitlab", ThePath, <<"python">>, TRUE, TRUE)
       /\ UNCHANGED <<hvars, dvars, gvars, qvars, avars, cvars, tvars>>
    \/ \E request \in TaskRequests :
          TriggerCodeAnalysis(request[1], request[2])
          /\ UNCHANGED <<hvars, dvars, bvars, gvars, qvars, avars, cvars>>
    \/ \E k \in 1..MaxRequests :
          RunCodeAnalysis(k) /\ UNCHANGED <<hvars, dvars, gvars, qvars, cvars>>
    \/ \E cli_found \in BOOLEAN :
          AnalyzeBuildDatabase(cli_found) /\ UNCHANGED <<hvars, dvars, qvars, cvars, tvars>>
    \/ CliBuildSucceeds /\ UNCHANGED <<hvars, dvars, gvars, qvars, avars, cvars, tvars>>
    \/ CliBuildFails /\ UNCHANGED <<hvars, dvars, gvars, qvars, avars, cvars, tvars>>
    \/ StoreSucceeds /\ UNCHANGED <<hvars, dvars, gvars, qvars, avars, cvars, tvars>>
    \/ StoreFails(TRUE) /\ UNCHANGED <<hvars, dvars, gvars, qvars, avars, cvars, tvars>>
    \/ BuildFinish(TRUE) /\ UNCHANGED <<hvars, dvars, gvars, qvars, avars, cvars, tvars>>
    \/ AnalyzeDatabaseBuilt /\ UNCHANGED <<hvars, dvars, qvars, cvars, tvars>>
    \/ /\ a_pc = "query"
       /\ \E runs \in AnalysisRunChoices(Head(a_call.todo)) :
             AnalyzeQueryAndEmit(runs, TRUE, {})
             /\ UNCHANGED <<hvars, dvars, qvars, cvars, tvars>>
    \/ AnalyzeEmitted /\ UNCHANGED <<hvars, dvars, qvars, cvars, tvars>>
    \/ AnalyzeSourceFinish /\ UNCHANGED <<hvars, dvars, qvars, cvars, tvars>>
    \/ \E source_id \in SourceIds :
          AreaNextSource(source_id) /\ UNCHANGED <<hvars, dvars, qvars, cvars, tvars>>
    \/ AreaCollect /\ UNCHANGED <<hvars, dvars, qvars, cvars, tvars>>
    \/ AreaFinish /\ UNCHANGED <<hvars, dvars, qvars, cvars, tvars>>
    \/ RunCodeAnalysisReturn /\ UNCHANGED <<hvars, dvars, gvars, qvars, cvars>>

SpecTasks == InitTasksSpec /\ [][NextTasks]_vars

(***************************************************************************)
(* Claims on HybridSearchEngine (checked under SpecHybrid).                *)
(***************************************************************************)
PosIn(s, id) == CHOOSE i \in 1..Len(s) : s[i] = id

FusedIds == {h_fused[i].id : i \in 1..Len(h_fused)}

\* score = 1/(60 + r) for 1-based rank r
IsSingleContribution(score, r) == score[1] * (60 + r) = score[2]

\* score = 1/(60 + rd) + 1/(60 + rs)
IsDoubleContribution(score, rd, rs) ==
    score[1] * (60 + rd) * (60 + rs) = score[2] * ((60 + rd) + (60 + rs))

\* C3: for the dense and sparse candidate lists of a call, an id present in
\* both lists has the fused score 1/(60 + rank_dense) + 1/(60 + rank_sparse)
\* (1-based ranks), an id present in one list only has 1/(60 + rank), and the
\* ids of the fused output are exactly the union of the ids of both lists.
C3_RrfScores ==
    h_call.status = "ok" =>
        /\ FusedIds = Range(h_call.dense) \cup Range(h_call.sparse)
        /\ \A i \in 1..Len(h_fused) :
              LET id == h_fused[i].id
                  sc == h_fused[i].rrf_score
                  inD == id \in Range(h_call.dense)
                  inS == id \in Range(h_call.sparse)
              IN  /\ (inD /\ inS) =>
                        IsDoubleContribution(sc, PosIn(h_call.dense, id),
                                                 PosIn(h_call.sparse, id))
                  /\ (inD /\ ~inS) => IsSingleContribution(sc, PosIn(h_call.dense, id))
                  /\ (inS /\ ~inD) => IsSingleContribution(sc, PosIn(h_call.sparse, id))

\* C3 witness: a fusion in which one id is in both lists at different ranks
\* and another id is in one list only.
C3_Witness ==
    /\ h_call.status = "ok"
    /\ \E id \in Range(h_call.dense) \cap Range(h_call.sparse) :
          PosIn(h_call.dense, id) # PosIn(h_call.sparse, id)
    /\ \E id \in FusedIds : id \notin Range(h_call.dense)
    /\ \E id \in FusedIds : id \notin Range(h_call.sparse)

\* The fused score an id must have, from its ranks in the two lists.
ExpectedScore(id) ==
    LET inD == id \in Range(h_call.dense)
        inS == id \in Range(h_call.sparse)
        rd == 60 + PosIn(h_call.dense, id)
        rs == 60 + PosIn(h_call.sparse, id)
    IN  IF inD /\ inS THEN <<rd + rs, rd * rs>>
        ELSE IF inD THEN <<1, rd>>
        ELSE <<1, rs>>

\* C4: hybrid_search returns at most top_k candidates, each id once, in
\* non-increasing fused-score order, and they are the highest-scoring ones of
\* the fusion of at most 2*top_k dense and 2*top_k sparse candidates: no
\* candidate left out scores higher than a returned one.
C4_TopKOrdered ==
    h_call.status = "ok" =>
        LET ids == Range(h_call.dense) \cup Range(h_call.sparse)
            got == {h_result[i].id : i \in 1..Len(h_result)}
        IN  /\ Len(h_call.dense) <= 2 * h_call.top_k
            /\ Len(h_call.sparse) <= 2 * h_call.top_k
            /\ Len(h_result) = Min(h_call.top_k, Cardinality(ids))
            /\ got \subseteq ids
            /\ \A i, j \in 1..Len(h_result) : h_result[i].id = h_result[j].id => i = j
            /\ \A i \in 1..Len(h_result) :
                  FracEQ(h_result[i].rrf_score, ExpectedScore(h_result[i].id))
            /\ \A i \in 1..(Len(h_result) - 1) :
                  ~FracGT(h_result[i + 1].rrf_score, h_result[i].rrf_score)
            /\ \A id \in ids \ got : \A i \in 1..Len(h_result) :
                  ~FracGT(ExpectedScore(id), h_result[i].rrf_score)

\* C4 witness: a call that cut the fusion at top_k and whose best candidate
\* is not the first dense one.
C4_Witness ==
    /\ h_call.status = "ok"
    /\ Len(h_fused) > h_call.top_k
    /\ Len(h_result) = h_call.top_k
    /\ Len(h_result) >= 2
    /\ h_call.sparse # <<>>
    /\ h_call.dense # <<>>
    /\ h_result[1].id # h_call.dense[1]

\* C5: when no lexical index exists for the area, hybrid_search does not
\* raise and returns the first top_k dense results in dense order.
C5_DenseOnly ==
    (h_call.status = "ok" /\ ~h_call.indexed) =>
        /\ h_call.sparse = <<>>
        /\ Len(h_result) = Min(h_call.top_k, Len(h_call.dense))
        /\ \A i \in 1..Len(h_result) : h_result[i].id = h_call.dense[i]

\* C5 witness: a completed call for an unindexed area that got more dense
\* results than top_k and returned at least two of them.
C5_Witness ==
    /\ h_call.status = "ok"
    /\ ~h_call.indexed
    /\ Len(h_call.dense) > h_call.top_k
    /\ Len(h_result) >= 2

\* The chunk lists an ingestion can hand to build_bm25_index.
ChunkLists == InjectiveSeqs(DocIds, Cardinality(DocIds)) \ {<<>>}

\* C25: the lexical index of an area is rebuilt wholesale.  A step of
\* build_bm25_index(area, docs) leaves the index and the document list of the
\* area built over exactly docs, whatever the area held before, and leaves
\* the indexes and document lists of all other areas as they were; no other
\* step changes an index or a document list; and a bm25_search of an indexed
\* area ranks the chunks of the area's current document list and no others.
C25_RebuildWholesale ==
    [][ /\ \A area \in Areas, docs \in ChunkLists :
              BuildBm25Index(area, docs) =>
                  /\ bm25_indexes'[area] = docs
                  /\ bm25_documents'[area] = docs
                  /\ \A other \in Areas \ {area} :
                        /\ bm25_indexes'[other] = bm25_indexes[other]
                        /\ bm25_documents'[other] = bm25_documents[other]
        /\ (bm25_indexes' # bm25_indexes \/ bm25_documents' # bm25_documents) =>
              \E area \in Areas, docs \in ChunkLists : BuildBm25Index(area, docs)
        /\ (h_call.status = "dense" /\ h_call'.status = "ok" /\ h_call'.indexed) =>
              LET docs == bm25_documents[h_call'.area]
              IN  /\ Range(h_call'.sparse) \subseteq Range(docs)
                  /\ Len(h_call'.sparse) = Min(2 * h_call'.top_k, Len(docs))
                  /\ IsInjective(h_call'.sparse)
      ]_vars

\* C25 witness: a search of an area that was rebuilt while the search was
\* suspended has ranked the one chunk of the rebuild, and the other area
\* still holds the three chunks it was indexed with.
C25_Witness ==
    /\ h_call.status = "ok"
    /\ h_call.rebuilt
    /\ h_call.indexed
    /\ Len(h_call.sparse) = 1
    /\ bm25_documents[h_call.area] = h_call.sparse
    /\ \E other \in Areas \ {h_call.area} :
          /\ bm25_indexes[other] # NoIndex
          /\ Len(bm25_documents[other]) = Cardinality(DocIds)

(***************************************************************************)
(* Claims on the rebuild of the lexical index (checked under SpecRebuild). *)
(***************************************************************************)
\* The index of an area is of one build and its document list of another.
MixedPair(area) ==
    /\ bm25_indexes[area] # NoIndex
    /\ bm25_indexes[area] # bm25_documents[area]

\* C29 as stated: a bm25_search for an area that runs concurrently with
\* build_bm25_index for the same area can observe the index of one build
\* paired with the document list of another.  The pair is mixed between the
\* two assignments of the build only, so the claim needs the bm25_search of
\* a hybrid_search in flight for the area to be able to run there.
C29_SearchCanRunBetweenAssignments ==
    (/\ h_build # NoBuilding
     /\ h_call.status = "dense"
     /\ h_call.area = h_build.area
     /\ MixedPair(h_build.area))
    => ENABLED HybridSearchResumes

\* C29 (amended): the rebuild is a replace in two assignments, and between
\* them the index of the area is of the new build and its document list of
\* the build before; but the pair of an area is mixed only while a
\* build_bm25_index for that area is between its assignments, and every
\* bm25_search, also the one of a hybrid_search that was in flight during
\* the rebuild of its area, has read an index and a document list of the
\* same build, the latest.
C29_SearchSeesOneBuild ==
    /\ \A area \in Areas :
          MixedPair(area) => (h_build # NoBuilding /\ h_build.area = area)
    /\ (h_call.status = "ok" /\ h_call.indexed) =>
          /\ h_call.seen_index = h_call.seen_documents
          /\ h_call.seen_index = bm25_indexes[h_call.area]

\* C29 witness: a search of an indexed area completed; while it was in
\* flight the area was rebuilt over other chunks, index and document list
\* being of two builds between the assignments, and the search has read
\* the two chunks of the later build in both.
C29_Witness ==
    /\ h_call.status = "ok"
    /\ h_call.indexed
    /\ h_call.rebuilt
    /\ h_call.mixed_meanwhile
    /\ Len(h_call.seen_documents) = 2
    /\ h_call.seen_index = h_call.seen_documents

(***************************************************************************)
(* Claims on RetrieverDispatcher (checked under SpecDispatch).             *)
(***************************************************************************)
\* C1: for a known business area retrieve never raises; a retriever that
\* fails, also by raising, only fills its own slot and the call goes on.
\* The code awaits retriever.retrieve with nothing around it, so the formula
\* is violated as soon as a registered retriever raises.
C1_NeverRaisesForKnownArea ==
    d_pc = "raised" => d_args.area \notin Areas

ResultsOf(source) ==
    LET i == CHOOSE j \in 1..Len(d_results) : d_results[j].source = source
    IN  d_results[i].results

HasEntry(source) == \E j \in 1..Len(d_results) : d_results[j].source = source

\* The invocations logged for a slot.
InvocationsOf(source, name) ==
    {i \in 1..Len(d_invoked) :
        d_invoked[i].source = source /\ d_invoked[i].retriever = name}

\* The slot about to be handled is one without a usable retriever.
AtSyntheticSlot ==
    /\ d_pc = "running"
    /\ \/ d_cur = "" /\ d_todo # <<>> /\ RetrieverNamesFor(Head(d_todo)) = <<>>
       \/ d_cur # "" /\ d_registry[Head(d_names)] = "none"

C2_ReturnedMap ==
    d_pc = "returned" =>
        \A source \in Range(SelectSources(sources_config, d_args.sources)) :
            /\ HasEntry(source)
            /\ LET names == RetrieverNamesFor(source)
                   got == ResultsOf(source)
               IN  IF names = <<>>
                   THEN /\ Len(got) = 1
                        /\ got[1].error # "null"
                        /\ got[1].documents = 0
                   ELSE /\ Len(got) = Len(names)
                        /\ \A i \in 1..Len(names) :
                             IF got[i].message = "retriever_not_found"
                             THEN /\ got[i].retriever_name = names[i]
                                  /\ got[i].error # "null"
                                  /\ got[i].documents = 0
                                  /\ InvocationsOf(source, names[i]) = {}
                             ELSE /\ Cardinality(InvocationsOf(source, names[i])) = 1
                                  /\ \E k \in InvocationsOf(source, names[i]) :
                                       got[i] = RetrieverResult(source, names[i],
                                                    d_invoked[k].kind, d_invoked[k].filters,
                                                    d_invoked[k].outcome)

\* C2: a source without retriever gets one synthetic failed result, a name
\* that is not registered gets a synthetic failed result in its slot; neither
\* aborts the call, and the returned map holds, for every other slot, the
\* result of the one invocation made for it.
C2_MissingRetrieverIsolated ==
    /\ [] C2_ReturnedMap
    /\ [][AtSyntheticSlot => d_pc' = "running"]_vars

\* C2 witness: a returned map with a no-retriever source and, for another
\* source, an unregistered slot beside a real result with documents.
C2_Witness ==
    /\ d_pc = "returned"
    /\ \E j \in 1..Len(d_results) : d_results[j].results[1].message = "no_retriever"
    /\ \E j \in 1..Len(d_results) :
          /\ \E i \in 1..Len(d_results[j].results) :
                d_results[j].results[i].message = "retriever_not_found"
          /\ \E i \in 1..Len(d_results[j].results) :
                d_results[j].results[i].documents > 0

(***************************************************************************)
(* Further claims on RetrieverDispatcher (SpecDispatch).                   *)
(***************************************************************************)
\* The filters invocation inv received keep every entry of the caller's
\* filters other than "source".
PassesCallerEntries(inv) ==
    /\ DOMAIN inv.filters = DOMAIN d_args.filters \cup {"source"}
    /\ \A k \in DOMAIN d_args.filters \ {"source"} : inv.filters[k] = d_args.filters[k]

\* C19: every retriever invocation retrieve makes for source S receives
\* filters whose "source" entry is S, whatever filters the caller gave (a
\* "source" key of the caller included), with the caller's other entries
\* passed through.
C19_SourceFilterForced ==
    \A i \in 1..Len(d_invoked) :
        /\ d_invoked[i].filters["source"] = d_invoked[i].source
        /\ PassesCallerEntries(d_invoked[i])

\* The sources the call is to cover: the configured ones, restricted to the
\* `sources` argument when one is given.
RequestedSources ==
    {s \in Range(sources_config) :
        d_args.sources = <<>> \/ s \in Range(d_args.sources)}

KeysOf(results) == {results[j].source : j \in 1..Len(results)}

\* The list under a key has one result per resolved retriever name, in order.
OnePerName(entry) ==
    LET names == RetrieverNamesFor(entry.source)
    IN  /\ Len(entry.results) = Len(names)
        /\ \A i \in 1..Len(names) : entry.results[i].retriever_name = names[i]

ReturnedKeys ==
    /\ KeysOf(d_results) = RequestedSources
    /\ \A i, j \in 1..Len(d_results) :
          d_results[i].source = d_results[j].source => i = j
    /\ sources_config = <<>> => (d_results = <<>> /\ d_invoked = <<>>)

\* C20 as stated: the returned map's keys are the configured sources
\* (restricted to `sources` when given) and each key holds one result per
\* resolved retriever name, in list order; nothing configured, nothing
\* returned or invoked.
C20_KeysAndOnePerName ==
    d_pc = "returned" =>
        /\ ReturnedKeys
        /\ \A j \in 1..Len(d_results) : OnePerName(d_results[j])

\* C20, amended: as stated, except that a source for which no retriever name
\* resolves holds a single synthetic result (retriever "none", message
\* no_retriever) rather than an empty list.
C20_KeysAndOnePerNameOrSynthetic ==
    d_pc = "returned" =>
        /\ ReturnedKeys
        /\ \A j \in 1..Len(d_results) :
              IF RetrieverNamesFor(d_results[j].source) = <<>>
              THEN /\ Len(d_results[j].results) = 1
                   /\ d_results[j].results[1].retriever_name = "none"
                   /\ d_results[j].results[1].message = "no_retriever"
              ELSE OnePerName(d_results[j])

C20_Witness ==
    /\ d_pc = "returned"
    /\ Len(d_args.sources) = 2
    /\ Len(sources_config) = 2
    /\ Len(d_results) = 1
    /\ Len(d_results[1].results) = 2
    /\ d_results[1].source \in DOMAIN overrides
    /\ d_invoked # <<>>

\* C21: retrieve called with a business area that is not in the configured
\* list raises the invalid-area error at once: no source is resolved, no
\* retriever is invoked and no map, partial or not, is returned.
C21_InvalidAreaRaisesFirst ==
    (d_pc # "idle" /\ d_args.area \notin Areas) =>
        /\ d_pc = "raised"
        /\ d_todo = <<>>
        /\ d_cur = ""
        /\ d_names = <<>>
        /\ d_invoked = <<>>
        /\ d_results = <<>>

\* An unknown area was asked for two configured sources by name.
C21_Witness ==
    /\ d_pc = "raised"
    /\ d_args.area = UnknownArea
    /\ Len(sources_config) = 2
    /\ d_args.sources # <<>>
    /\ Range(d_args.sources) \cap Range(sources_config) # {}

(***************************************************************************)
(* Claims on CodeQLDatabaseBuilder and CodeSourceRegistry (SpecBuild).     *)
(***************************************************************************)
\* The call got as far as comparing revisions: CLI there, source registered.
Decided == b_pc # "idle" /\ b_call.repo_path # ""

TheEntry == registry[TheSource]

\* C6 as stated: the CLI build is invoked only when the current revision
\* differs from last_analyzed_commit or no stored database exists, whatever
\* the current revision is, one that cannot be computed included.
C6_BuildOnlyWhenChangedOrMissing ==
    (Decided /\ b_call.cli_invoked) =>
        (b_call.current_commit # b_call.last_commit \/ b_call.existing_db = "None")

Stale ==
    \/ b_call.current_commit = NoCommit
    \/ b_call.current_commit # b_call.last_commit
    \/ b_call.existing_db = "None"

C6_Decision ==
    Decided =>
        /\ b_call.cli_invoked <=> Stale
        /\ ~b_call.cli_invoked =>
              /\ b_pc = "done"
              /\ b_call.result = "stored_path"
              /\ b_call.result = b_call.existing_db

C6_HitChangesNothing ==
    (b_pc = "idle" /\ b_pc' = "done") =>
        /\ registry' = registry
        /\ registry_file' = registry_file
        /\ storage' = storage

\* C6, amended: build_database invokes the CLI build exactly when the current
\* revision cannot be computed, or differs from last_analyzed_commit, or no
\* stored database exists; in every other case it returns the stored database
\* path without a build and without changing registry or storage.
C6_BuildExactlyWhenStale == [] C6_Decision /\ [][C6_HitChangesNothing]_vars

C6_Witness ==
    /\ b_pc = "done"
    /\ Decided
    /\ ~b_call.cli_invoked
    /\ b_call.result = "stored_path"
    /\ b_call.current_commit \in Revs
    /\ b_call.current_commit = b_call.last_commit

JustRegisteredAndUpdated(trail) ==
    Len(trail) = 3 /\ trail[1] = "register" /\ trail[2] = "update_commit_hash"

C7_CommitAndTimeSet ==
    JustRegisteredAndUpdated(reg_trail) =>
        /\ TheEntry.registered
        /\ TheEntry.last_analyzed_commit = reg_trail[3]
        /\ TheEntry.last_analyzed_time # 0

\* The build_database call made next found the checkout at the hash given to
\* update_commit_hash.
BuildAfterUpdate ==
    /\ Decided
    /\ JustRegisteredAndUpdated(b_call.trail)
    /\ b_call.current_commit = b_call.trail[3]

\* C7 as stated: after register and update_commit_hash(h) the entry has
\* commit h and a time, and the build_database call made next at revision h
\* makes no CLI build invocation.
C7_UpdateThenCacheHit ==
    /\ C7_CommitAndTimeSet
    /\ BuildAfterUpdate => ~b_call.cli_invoked

\* C7, amended: after register and update_commit_hash(h) the entry has commit
\* h and a time, and the build_database call made next at revision h makes no
\* CLI build invocation provided a stored database exists for (area, repo
\* path, language); with none stored it invokes the build.
C7_UpdateThenCacheHitIfStored ==
    /\ C7_CommitAndTimeSet
    /\ BuildAfterUpdate => (b_call.cli_invoked <=> b_call.existing_db = "None")

C7_Witness ==
    /\ BuildAfterUpdate
    /\ b_pc = "done"
    /\ ~b_call.cli_invoked
    /\ b_call.result = "stored_path"
    /\ TheEntry.last_analyzed_commit = b_call.trail[3]

\* A step of a build_database call, as opposed to a registry call.
BuildStep == ~(b_pc = "idle" /\ b_pc' = "idle")

C8_ChangeOnlyAtSuccessfulEnd ==
    (BuildStep /\ registry'[TheSource] # registry[TheSource]) =>
        /\ b_pc = "updating" /\ b_pc' = "done"
        /\ b_call.cli_ok /\ b_call.stored
        /\ registry'[TheSource].last_analyzed_commit = b_call.current_commit

C8_FailureLeavesEntry ==
    (b_pc = "done" /\ Decided /\ b_call.cli_invoked /\ ~b_call.stored) =>
        /\ TheEntry.last_analyzed_commit = b_call.last_commit
        /\ TheEntry.last_analyzed_time = b_call.last_time

\* C8: during a build_database call last_analyzed_commit changes only in the
\* last step of a call whose CLI build and store both succeeded, to the
\* revision read when the call began; a call whose build or store failed
\* leaves last_analyzed_commit and last_analyzed_time as they were.
C8_CommitOnlyAfterSuccess ==
    [] C8_FailureLeavesEntry /\ [][C8_ChangeOnlyAtSuccessfulEnd]_vars

C8_Witness ==
    /\ b_pc = "done"
    /\ b_call.cli_ok /\ b_call.stored
    /\ b_call.result = "stored_path"
    /\ b_call.current_commit # b_call.last_commit
    /\ TheEntry.last_analyzed_commit = b_call.current_commit
    /\ head[ThePath] # b_call.current_commit

(***************************************************************************)
(* Claims on CodeSourceRegistry (SpecRegistry).                            *)
(***************************************************************************)
Registered == {k \in SourceIds : registry[k].registered}

\* The entries registered for the (area, type, path) of entry e under a
\* generated id.
EntriesFor(e) ==
    {k \in Registered \ {CustomId} :
        /\ registry[k].business_area = e.business_area
        /\ registry[k].source_type = e.source_type
        /\ registry[k].path = e.path}

\* The second of two register calls in a row for one (area, type, path), the
\* id generated both times, has returned.
RegisteredTwice ==
    /\ r_call.op = "register"
    /\ r_call.same_as_last
    /\ ~r_call.given
    /\ ~r_call.raised

\* C12: register called twice with the same (area, type, path) returns the
\* same source_id both times and the registry then holds exactly one entry
\* under that id, the one of the second call; every registry entry is stored
\* under the key equal to its own source_id.
C12_RegisterTwiceSameId ==
    /\ \A k \in Registered : registry[k].source_id = k
    /\ RegisteredTwice =>
          /\ r_call.returned = r_call.last_returned
          /\ r_call.returned \in Registered
          /\ EntriesFor(registry[r_call.returned]) = {r_call.returned}
          /\ registry[r_call.returned].languages = r_call.fields[1]
          /\ registry[r_call.returned].enabled = r_call.fields[2]

C12_Witness ==
    /\ RegisteredTwice
    /\ r_call.returned = r_call.last_returned
    /\ registry[r_call.returned].languages = <<"python">>
    /\ ~registry[r_call.returned].enabled
    /\ CustomId \in Registered

\* C22: update_commit_hash and delete for an id the registry does not hold
\* raise and leave the registry as it was, in memory and in the file; a
\* delete that returns leaves no entry under the id and every other entry as
\* it was.
C22_NotFoundAndDelete ==
    [][ /\ (/\ r_call' # r_call
            /\ r_call'.op \in {"update_commit_hash", "delete"}
            /\ ~registry[r_call'.source_id].registered) =>
               /\ r_call'.raised
               /\ registry' = registry
               /\ registry_file' = registry_file
        /\ (/\ r_call' # r_call
            /\ r_call'.op = "delete"
            /\ ~r_call'.raised) =>
               /\ registry[r_call'.source_id].registered
               /\ ~registry'[r_call'.source_id].registered
               /\ \A k \in SourceIds \ {r_call'.source_id} :
                     registry'[k] = registry[k]
               /\ Load(registry_file') = registry' ]_vars

\* A delete returned; another entry, with its recorded commit, is still there.
C22_Witness ==
    /\ r_call.op = "delete"
    /\ ~r_call.raised
    /\ r_call.source_id = TheSource
    /\ ~registry[TheSource].registered
    /\ registry[CustomId].registered
    /\ registry[CustomId].last_analyzed_commit = "r1"

\* C13: a register step on an id that is already registered overwrites the
\* registration fields and resets nothing else: last_analyzed_commit and
\* last_analyzed_time are afterwards what they were before.
C13_ReRegisterKeepsCommit ==
    [][ (r_call'.op = "register" /\ registry[r_call'.source_id].registered) =>
          /\ registry'[r_call'.source_id].languages = r_call'.fields[1]
          /\ registry'[r_call'.source_id].enabled = r_call'.fields[2]
          /\ registry'[r_call'.source_id].last_analyzed_commit =
                registry[r_call'.source_id].last_analyzed_commit
          /\ registry'[r_call'.source_id].last_analyzed_time =
                registry[r_call'.source_id].last_analyzed_time ]_vars

\* C14: after any sequence of register, update_commit_hash and delete calls,
\* failing writes included, a registry freshly loaded from the file holds
\* exactly the entries of the registry in memory.
C14_FileMatchesMemory == Load(registry_file) = registry

(***************************************************************************)
(* Claims on GraphEmitter (SpecEmit).                                      *)
(***************************************************************************)
Tagged(bag, area, repo) ==
    {x \in BagToSet(bag) : x.business_area = area /\ x.repo = repo}

\* C9: when emit_from_codeql_results(results, area, repo) has completed,
\* every node and edge tagged (area, repo) derives from results; what was
\* tagged (area, repo) before and is not re-emitted is gone.
C9_OnlyEmittedRemain ==
    g_pc = "done" =>
        LET d == DerivedFrom(g_call.query_results, g_call.business_area, g_call.repo_path)
        IN  /\ Tagged(graph_nodes, g_call.business_area, g_call.repo_path)
                \subseteq BagToSet(d.nodes)
            /\ Tagged(graph_edges, g_call.business_area, g_call.repo_path)
                \subseteq BagToSet(d.edges)

NoDuplicates ==
    /\ \A n \in BagToSet(graph_nodes) : CopiesIn(n, graph_nodes) = 1
    /\ \A n, m \in BagToSet(graph_nodes) : n.id = m.id => n = m
    /\ \A e \in BagToSet(graph_edges) : CopiesIn(e, graph_edges) = 1
    /\ \A e, f \in BagToSet(graph_edges) :
          (e.type = f.type /\ e.source = f.source /\ e.target = f.target) => e = f

\* The emission just completed had the arguments of the one before it.
SecondInARow == g_pc = "done" /\ g_call.repeated

\* C10: the graph store never holds two nodes with one composite id nor two
\* edges of one type between one pair of nodes, and emitting the same results
\* twice in a row for one (area, repo) leaves what emitting them once left.
C10_NoDuplicatesIdempotent ==
    /\ NoDuplicates
    /\ SecondInARow =>
          /\ graph_nodes = g_call.before_nodes
          /\ graph_edges = g_call.before_edges

\* C18: when emit_from_codeql_results has completed, the node and edge counts
\* it returns are the numbers of distinct nodes and edges tagged
\* (area, repo) that the store holds.
C18_CountsMatchStore ==
    g_pc = "done" =>
        /\ g_call.nodes =
              Cardinality(Tagged(graph_nodes, g_call.business_area, g_call.repo_path))
        /\ g_call.edges =
              Cardinality(Tagged(graph_edges, g_call.business_area, g_call.repo_path))

\* The counts differ from the store although the deletion and every upsert
\* of the call succeeded.
C18_OverCountWithoutFailure ==
    /\ g_pc = "done"
    /\ neo4j_available
    /\ g_call.delete_ok
    /\ g_call.faults = {}
    /\ g_call.nodes >
          Cardinality(Tagged(graph_nodes, g_call.business_area, g_call.repo_path))
    /\ g_call.edges >
          Cardinality(Tagged(graph_edges, g_call.business_area, g_call.repo_path))

(***************************************************************************)
(* Claims on CodeQLQueryExecutor (SpecQuery).                              *)
(***************************************************************************)
\* The analyses of each language, as the specification lists them.
Battery(language) ==
    CASE language = "python" -> <<"call_graph", "subprocess_calls", "imports">>
      [] language = "java"   -> <<"call_graph">>
      [] OTHER               -> <<>>

\* The i-th analysis of the call failed: no CLI, a missing query file, an
\* output of unexpected shape, a CLI error or a timeout.
AnalysisFailed(i) == ~q_cli \/ q_call.runs[i] \notin GoodRuns

\* C17: execute_all_queries returns one entry for every analysis of the
\* language's battery, in its order; a failing analysis maps to an empty
\* list while the others keep their rows; the call returns in every case; a
\* language without a battery yields an empty map.
C17_OneEntryPerAnalysis ==
    q_pc = "done" =>
        LET names == Battery(q_call.language)
            res == q_call.all_results
        IN  /\ Len(res) = Len(names)
            /\ \A i \in 1..Len(names) :
                  /\ res[i][1] = names[i]
                  /\ AnalysisFailed(i) => res[i][2] = <<>>
                  /\ ~AnalysisFailed(i) => res[i][2] # <<>>
            /\ q_call.language \notin {"python", "java"} => res = <<>>

C17_Witness ==
    /\ q_pc = "done"
    /\ q_cli
    /\ q_call.language = "python"
    /\ q_call.runs = <<"timeout", "raw_output", "list">>
    /\ q_call.all_results = << <<"call_graph", <<>> >>,
                               <<"subprocess_calls", <<>> >>,
                               <<"imports", <<Row("a.py", "os")>> >> >>

(***************************************************************************)
(* Claims on CodeQLAnalysisService (SpecAnalyze, SpecSource).              *)
(***************************************************************************)
\* This step is the start of an analyze_source call.
SourceCallStarts == a_call = NoAnalysis /\ a_call' # NoAnalysis

\* C11: analyze_source on a disabled source, or on a source whose business
\* area is not code-graph-enabled, returns status skipped with the reason
\* source_disabled, respectively codeql_not_enabled_for_business_area, in the
\* step that starts it, and neither that step nor the return changes the
\* builder's state (no revision read, no CLI call, no database), the graph
\* store or the registry with its last_analyzed_commit.
C11_SkippedTouchesNothing ==
    [][ /\ (SourceCallStarts /\ registry[a_call'.source_id].registered) =>
            LET source == registry[a_call'.source_id]
            IN  /\ ~source.enabled =>
                      /\ a_pc' = "done"
                      /\ a_call'.status = "skipped"
                      /\ a_call'.reason = "source_disabled"
                /\ (source.enabled /\ ~IsCodeqlEnabled(source.business_area)) =>
                      /\ a_pc' = "done"
                      /\ a_call'.status = "skipped"
                      /\ a_call'.reason = "codeql_not_enabled_for_business_area"
                /\ (source.enabled /\ IsCodeqlEnabled(source.business_area)) =>
                      a_call'.status = "running"
        /\ (a_call'.status = "skipped" \/ a_call.status = "skipped") =>
              UNCHANGED <<bvars, gvars>> ]_vars

\* A registered source with a checkout at a revision was skipped for its
\* area; nothing was built, recorded or emitted.
C11_Witness ==
    /\ a_pc = "done"
    /\ a_call.source_id = TheSource
    /\ a_call.status = "skipped"
    /\ a_call.reason = "codeql_not_enabled_for_business_area"
    /\ registry[TheSource].enabled
    /\ head[ThePath] = "r1"
    /\ registry[TheSource].last_analyzed_commit = NoCommit
    /\ ~cli_ready
    /\ graph_nodes = EmptyBag

\* C15: when analyze_source has gone through its languages, build_database
\* was called for every language of the source in order, every language has
\* its entry under "databases" (success, failed or error), a language whose
\* build or emission failed has no graph counts, and every other language has
\* its query results and graph counts: no failure ended the loop or the call.
C15_FailureIsPerLanguage ==
    (a_pc = "done" /\ a_call.status = "success") =>
        /\ a_call.built = a_call.languages
        /\ Keys(a_call.databases) = Range(a_call.languages)
        /\ \A language \in Range(a_call.languages) :
              LET status == Get(a_call.databases, language)
              IN  /\ status \in {"success", "failed", "error"}
                  /\ status = "success" =>
                        /\ language \in Keys(a_call.queries)
                        /\ language \in Keys(a_call.graph)
                  /\ status = "failed" =>
                        /\ language \notin Keys(a_call.queries)
                        /\ language \notin Keys(a_call.graph)
                  /\ status = "error" => language \notin Keys(a_call.graph)

\* The first language failed in emission, the second was built, queried and
\* emitted.
C15_Witness ==
    /\ a_pc = "done"
    /\ a_call.status = "success"
    /\ a_call.languages = <<"python", "java">>
    /\ a_call.databases = << <<"python", "error">>, <<"java", "success">> >>
    /\ Keys(a_call.graph) = {"java"}
    /\ Keys(a_call.queries) = {"python", "java"}

\* The enabled sources the registry holds for the area.
EnabledSourcesOf(area) ==
    {s \in SourceIds : /\ registry[s].registered
                       /\ registry[s].business_area = area
                       /\ registry[s].enabled}

\* C16: the result of analyze_business_area for a code-graph-enabled area has
\* exactly one entry per enabled source registered for the area and none for
\* any other source; every entry is the completed result of its source, with
\* a status for each of its languages, whatever failed in another source.
C16_OneEntryPerEnabledSource ==
    (a_pc = "area_done" /\ IsCodeqlEnabled(a_area.business_area)) =>
        LET enabled == EnabledSourcesOf(a_area.business_area)
        IN  /\ Keys(a_area.sources) = enabled
            /\ Len(a_area.sources) = Cardinality(enabled)
            /\ enabled # {} => a_area.status = "success"
            /\ \A s \in enabled :
                  /\ Get(a_area.sources, s).status = "success"
                  /\ Keys(Get(a_area.sources, s).databases) =
                        Range(registry[s].languages)

\* Two enabled sources of pharmacy were analysed, the first with a failed
\* language; the disabled source and the source of claims have no entry.
C16_Witness ==
    /\ a_pc = "area_done"
    /\ a_area.business_area = "pharmacy"
    /\ \A i \in DOMAIN AnalyzedSources : registry[AnalyzedId(i)].registered
    /\ Len(a_area.sources) = 2
    /\ \E language \in Languages :
          Get(a_area.sources[1][2].databases, language) = "failed"
    /\ \A i \in 1..Len(a_area.sources[2][2].databases) :
          a_area.sources[2][2].databases[i][2] = "success"

\* analyze_business_area has returned and is_codeql_enabled(area), its first
\* statement, was true.
FoundEnabled ==
    ~(a_area.status = "skipped"
      /\ a_area.reason = "codeql_not_enabled_for_business_area")

\* C23 as stated: is_codeql_enabled(area) is true exactly when the global
\* flag is set and the area has a non-empty configuration block that carries
\* a true enabled flag; a block without an enabled flag gives false.
C23_EnabledNeedsTrueFlag ==
    a_pc = "area_done" =>
        (FoundEnabled <=>
            /\ codeql_enabled
            /\ codeql_config[a_area.business_area] = "True")

\* C23: is_codeql_enabled(area) is true exactly when the global flag is set
\* and the area has a non-empty configuration block whose enabled value,
\* "true" when the block has none, is "true" in any letter case.
C23_EnabledUnlessFlagFalse ==
    a_pc = "area_done" =>
        (FoundEnabled <=>
            /\ codeql_enabled
            /\ codeql_config[a_area.business_area] \in {"True", "no_enabled_key"})

\* An area whose block has no enabled flag was found enabled and analysed.
C23_Witness ==
    /\ a_pc = "area_done"
    /\ codeql_enabled
    /\ codeql_config[a_area.business_area] = "no_enabled_key"
    /\ a_area.status = "success"
    /\ Len(a_area.sources) = 1

(***************************************************************************)
(* Claims on ChangeDetector (SpecChange).                                  *)
(***************************************************************************)
\* C24: detect_changes(area, source, C) returns, against the ids S of the
\* last update_sync_metadata for that (area, source) (none if there was no
\* such call), added = C \ S, deleted = S \ C and existing = C \cap S as
\* sets, and leaves the stored metadata as it was.
C24_ChangesAgainstLastSync ==
    c_pc = "done" =>
        LET S == Range(last_synced[<<c_call.business_area, c_call.source>>])
            C == Range(c_call.current)
        IN  /\ c_call.added = C \ S
            /\ c_call.deleted = S \ C
            /\ c_call.existing = C \cap S
            /\ metadata = c_call.before

\* The same against the ids stored under the key of (area, source).
C24_ChangesAgainstStoredKey ==
    c_pc = "done" =>
        LET S == Range(GetStoredDocumentIds(c_call.business_area, c_call.source))
            C == Range(c_call.current)
        IN  /\ c_call.added = C \ S
            /\ c_call.deleted = S \ C
            /\ c_call.existing = C \cap S
            /\ metadata = c_call.before

(***************************************************************************)
(* Claims on the analysis of a source with several languages.              *)
(***************************************************************************)

\* C26: whenever build_database reuses a stored database for (source,
\* language), i.e. returns the stored path without invoking the CLI build,
\* the stored database is a complete one built from the revision the
\* source's checkout is at.
C26_ReusedDatabaseIsCurrent ==
    (b_pc = "done" /\ ~b_call.cli_invoked /\ b_call.result = "stored_path") =>
        /\ storage[BuildDir].kind = "db"
        /\ storage[BuildDir].rev = b_call.current_commit

\* C27: when analyze_source has completed, the graph store holds, tagged
\* with the source's (area, repo), every node and edge that the query results
\* of each language name whose build, queries and emission succeeded in the
\* run: what an earlier language emitted is still there after a later one.
C27_EveryLanguageKept ==
    (a_pc = "done" /\ a_call.status = "success") =>
        \A i \in 1..Len(a_call.graph) :
            LET language == a_call.graph[i][1]
                d == DerivedFrom(Get(a_call.queries, language),
                                 a_call.business_area, a_call.repo_path)
            IN  /\ BagToSet(d.nodes) \subseteq BagToSet(graph_nodes)
                /\ BagToSet(d.edges) \subseteq BagToSet(graph_edges)

\* The graph store and the emitter's call record.
GraphState == <<graph_nodes, graph_edges, g_pc, g_call, g_last>>

\* C30: per language analyze_source first calls build_database (revision
\* check, then build or reuse), then the query battery, then the emission.
\* The queries and the emission start only from a build_database call that
\* returned a path, for the language that call was made for; the emission
\* returns only after the queries; the next language starts only when this
\* one is over.  A language whose build_database returned None is recorded
\* "failed", gets no queries and no graph entry, and between its build and
\* the next language the graph store is neither deleted from nor written to.
C30_BuildThenQueriesThenEmission ==
    [][ /\ (a_pc # "building" /\ a_pc' = "building") =>
              /\ a_pc = "loop"
              /\ b_call'.language = Head(a_call.todo)
        /\ (a_pc # "query" /\ a_pc' = "query") =>
              /\ a_pc = "building"
              /\ b_pc = "done"
              /\ b_call.result # "None"
              /\ b_call.language = Head(a_call'.todo)
              /\ Get(a_call'.databases, Head(a_call'.todo)) = "success"
              /\ Head(a_call'.todo) \notin Keys(a_call'.queries)
        /\ (a_pc # "emitting" /\ a_pc' = "emitting") =>
              /\ a_pc = "query"
              /\ Head(a_call'.todo) \in Keys(a_call'.queries)
              /\ Head(a_call'.todo) \notin Keys(a_call'.graph)
        /\ (a_pc = "building" /\ a_pc' # "building" /\ b_call.result = "None") =>
              /\ a_pc' = "loop"
              /\ Get(a_call'.databases, Head(a_call.todo)) = "failed"
              /\ Head(a_call.todo) \notin Keys(a_call'.queries)
              /\ Head(a_call.todo) \notin Keys(a_call'.graph)
              /\ a_call'.todo = Tail(a_call.todo)
        /\ (a_pc \in {"loop", "building", "done"}) => GraphState' = GraphState
        /\ (GraphState' # GraphState) =>
              /\ a_pc \in {"query", "emitting"}
              /\ Get(a_call.databases, Head(a_call.todo)) = "success"
      ]_vars

\* C30 witness: an analysis is over in which the build of python failed and
\* java, built after it, was queried and emitted into the graph store.
C30_Witness ==
    /\ a_pc = "done"
    /\ a_call.status = "success"
    /\ a_call.languages = <<"python", "java">>
    /\ Get(a_call.databases, "python") = "failed"
    /\ Get(a_call.databases, "java") = "success"
    /\ Keys(a_call.queries) = {"java"}
    /\ Keys(a_call.graph) = {"java"}
    /\ graph_nodes # EmptyBag

(***************************************************************************)
(* Claims on concurrent analysis requests (checked under SpecTasks).       *)
(***************************************************************************)
\* The task the event loop runs is inside cli.database_create of a build it
\* started after reading last_analyzed_commit and passing the revision check,
\* and the task of another request for the same source is pending.
InCliBuildWithRequestPending(k) ==
    /\ t_running # 0
    /\ a_pc = "building"
    /\ b_pc = "building"
    /\ k \in DOMAIN t_pending
    /\ t_pending[k].source_id = a_call.source_id

\* C28: two analysis requests for the same source that are in the process
\* together can race.  The CLI invocation being a suspension point, the task
\* of the second request can start while the task of the first waits in its
\* CLI build, before the registry update: it then reads the same
\* last_analyzed_commit and passes the same revision check.  The code runs
\* the CLI under a blocking call, and the formula is violated in the first
\* state in which a task is inside its CLI build with the other pending.
C28_SecondTaskStartsDuringCliBuild ==
    \A k \in 1..MaxRequests :
        InCliBuildWithRequestPending(k) =>
            ENABLED RunCodeAnalysis(k)

====
